---- MODULE Spec2Model ----
(***************************************************************************)
(* Model of the IELTS verifiable-credential system: the Issuer, Holder,    *)
(* Verifier and Registry roles (src/src/components, src/unnamed/part_002)  *)
(* over the ZKManager accumulator and disclosure proofs                     *)
(* (src/unnamed/part_001 and src/src/core/zk-manager/*.ts) and the         *)
(* BBSManager signature adapter (src/src/core/bbs-manager.ts).             *)
(*                                                                         *)
(* Conventions.  A JavaScript value that may be undefined is a set with at *)
(* most one element (None = undefined).  A Map is a function whose domain  *)
(* is its key set.  A field name such as 'scores.overall' is the sequence  *)
(* of its dot-separated segments <<"scores", "overall">>.  Digests of the  *)
(* hash primitive and signatures of the signature primitive are symbolic   *)
(* terms built from their inputs (the primitives are injective and         *)
(* unforgeable by assumption).                                             *)
(***************************************************************************)
EXTENDS Integers, Sequences, FiniteSets, TLC

\* ------------------------------------------------------------------------
\* Bounds of the model
\* ------------------------------------------------------------------------
\* thresholds of a request range over MinThreshold..MaxThreshold
MinThreshold == 7
MaxThreshold == 8
MaxCalls == 2

\* ------------------------------------------------------------------------
\* Optional values and maps
\* ------------------------------------------------------------------------
None == {}
Some(x) == {x}
IsSome(o) == o # {}
The(o) == CHOOSE x \in o : TRUE

EmptyMap == <<>>
Has(m, k) == k \in DOMAIN m
Get(m, k) == IF k \in DOMAIN m THEN Some(m[k]) ELSE None
Put(m, k, v) == [x \in (DOMAIN m) \cup {k} |-> IF x = k THEN v ELSE m[x]]

\* ------------------------------------------------------------------------
\* Credentials (src/unnamed/part_003: IELTSCredential)
\* ------------------------------------------------------------------------
ScoreNames == {"listening", "reading", "writing", "speaking", "overall"}

TopLevelNames == {"id", "holder", "name", "dateOfBirth", "scores", "certificationDate",
                  "expiryDate", "testCenter", "certificateNumber"}

IELTSCredential(id, name, listening, overall, certDate, expiry) ==
  [id |-> id, holder |-> "holder-1", name |-> name, dateOfBirth |-> "dob",
   scores |-> [listening |-> listening, reading |-> 7, writing |-> 7,
               speaking |-> 7, overall |-> overall],
   certificationDate |-> certDate, expiryDate |-> expiry,
   testCenter |-> "center", certificateNumber |-> "cert"]

\* the credential data an issuer is asked to issue: one candidate's
\* certificate, with either of two score sheets
CredPool ==
  { IELTSCredential("c1", "alice", 8, 7, 1, 9),
    IELTSCredential("c1", "alice", 6, 8, 1, 9) }

\* the credentials handed to a ZKManager used on its own
ZKCredPool ==
  CredPool \cup { IELTSCredential("c2", "bob", 7, 7, 2, 9) }

FirstCredential == IELTSCredential("c1", "alice", 8, 7, 1, 9)
SecondCredential == IELTSCredential("c2", "bob", 7, 7, 2, 9)

\* credential ids named in calls; "c3" is never issued
CredIds == {"c1", "c2", "c3"}

\* the same credential with one score changed after issuance
WithScore(cred, s, v) == [cred EXCEPT !.scores = [@ EXCEPT ![s] = v]]

IssuerIds == {"issuer-1", "issuer-2"}

\* signing key: the issuer's key pair
IssuerKey == "key-issuer-1"

\* ------------------------------------------------------------------------
\* BBSManager  (src/src/core/bbs-manager.ts)
\* ------------------------------------------------------------------------
\* Number.prototype.toString on the scores 0..9
Digits == <<"0", "1", "2", "3", "4", "5", "6", "7", "8", "9">>
NumToString(n) == Digits[n + 1]

credentialToMessages(credential) ==
  << credential.id, credential.holder, credential.name, credential.dateOfBirth,
     NumToString(credential.scores.listening), NumToString(credential.scores.reading),
     NumToString(credential.scores.writing), NumToString(credential.scores.speaking),
     NumToString(credential.scores.overall),
     credential.certificationDate, credential.expiryDate,
     credential.testCenter, credential.certificateNumber >>

\* blsSign: a signature is the term (signing key, signed messages)
signCredential(keyPair, credential) ==
  [type |-> "BbsBlsSignature2020",
   signature |-> [key |-> keyPair, messages |-> credentialToMessages(credential)],
   publicKey |-> keyPair]

\* a verification that looks at the signing key and not at the messages
verifyCredentialKeyOnly(credentialOpt, proofOpt) ==
  IF credentialOpt = None \/ proofOpt = None
  THEN [threw |-> TRUE, verified |-> FALSE]
  ELSE [threw |-> FALSE,
        verified |-> The(proofOpt).signature.key = The(proofOpt).publicKey]

\* verifyCredential(credential, proof): reading a field of an undefined
\* credential or proof throws a TypeError; otherwise blsVerify decides.
verifyCredential(credentialOpt, proofOpt) ==
  IF credentialOpt = None \/ proofOpt = None
  THEN [threw |-> TRUE, verified |-> FALSE]
  ELSE LET credential == The(credentialOpt)
           proof == The(proofOpt)
       IN [threw |-> FALSE,
           verified |-> /\ proof.signature.key = proof.publicKey
                        /\ proof.signature.messages = credentialToMessages(credential)]

\* ------------------------------------------------------------------------
\* HashingUtils and the IndexedMerkleTree library
\* (src/src/core/zk-manager/hashing-utils.ts, merkle-tree-manager.ts)
\* ------------------------------------------------------------------------
\* Array.prototype.join(sep)
RECURSIVE JoinWith(_, _)
JoinWith(list, sep) ==
  IF Len(list) = 0 THEN ""
  ELSE IF Len(list) = 1 THEN list[1]
  ELSE list[1] \o sep \o JoinWith(Tail(list), sep)

ChunkBytes == 31

\* the successive slices of at most 31 bytes of the encoded data; every
\* character of the model's strings is one byte
RECURSIVE Chunks(_)
Chunks(dataBytes) ==
  IF Len(dataBytes) = 0 THEN <<>>
  ELSE IF Len(dataBytes) <= ChunkBytes THEN <<dataBytes>>
  ELSE <<SubSeq(dataBytes, 1, ChunkBytes)>>
          \o Chunks(SubSeq(dataBytes, ChunkBytes + 1, Len(dataBytes)))

\* the list hashCredential joins; the dates of the model are written with
\* one digit
CredentialData(credential) ==
  << credential.id, credential.holder, credential.name, credential.dateOfBirth,
     NumToString(credential.scores.listening),
     NumToString(credential.scores.reading),
     NumToString(credential.scores.writing),
     NumToString(credential.scores.speaking),
     NumToString(credential.scores.overall),
     NumToString(credential.certificationDate), NumToString(credential.expiryDate),
     credential.testCenter, credential.certificateNumber >>

\* hashCredential: the Poseidon digest of the chunks of the '|'-joined
\* attribute list; a chunk stands for the big-endian number of its bytes
hashCredential(credential) ==
  [poseidon |-> Chunks(JoinWith(CredentialData(credential), "|"))]

\* the string '0': getRoot() of a manager whose tree was never created, and
\* every sibling digest generateMembershipProof writes
SentinelRoot == [sentinel |-> TRUE, leaves |-> <<>>]

\* the empty string, the one root string that is falsy
EmptyRoot == [emptyString |-> TRUE]

\* the Poseidon digest of a list of field elements
Poseidon(inputs) == [poseidon |-> inputs]

Depth == 32

\* IndexedMerkleTree: a tree of fixed depth over the leaf positions 0, 1, ...;
\* it is created holding one initial leaf at position 0, the inserted values
\* take the positions 1, 2, ... in insertion order, an inner node is the
\* Poseidon digest of its two children, and a subtree without leaves has the
\* precomputed digest of its level.  The tree is kept as the sequence of
\* inserted values.
InitialLeaf == [initialLeaf |-> TRUE]
EmptyNode(level) == [emptySubtree |-> level]

TreeSize(leaves) == Len(leaves) + 1

RECURSIVE ShiftRight(_, _)
ShiftRight(n, k) == IF k = 0 \/ n = 0 THEN n ELSE ShiftRight(n \div 2, k - 1)

RECURSIVE Node(_, _, _)
Node(leaves, level, index) ==
  IF index > ShiftRight(Len(leaves), level) THEN EmptyNode(level)
  ELSE IF level = 0 THEN (IF index = 0 THEN InitialLeaf ELSE leaves[index])
  ELSE Poseidon(<<Node(leaves, level - 1, 2 * index),
                  Node(leaves, level - 1, 2 * index + 1)>>)

TreeRoot(leaves) == Node(leaves, Depth, 0)
TreeContains(leaves, h) == \E i \in 1..Len(leaves) : leaves[i] = h

\* new IndexedMerkleTree() and insert(value): the tree object keeps its
\* leaves and its root, recomputed by every insert
NewTree == [leaves |-> <<>>, root |-> TreeRoot(<<>>)]

\* an insert that stores the value and keeps the root it had
TreeInsertStaleRoot(tree, value) ==
  [leaves |-> Append(tree.leaves, value), root |-> tree.root]

TreeInsert(tree, value) ==
  [leaves |-> Append(tree.leaves, value), root |-> TreeRoot(Append(tree.leaves, value))]

\* ------------------------------------------------------------------------
\* ZKManager state: HashingUtils.poseidonHash, MerkleTreeManager fields
\* ------------------------------------------------------------------------
NewZKManager ==
  [poseidon |-> FALSE, tree |-> None,
   credentials |-> EmptyMap, leafNodes |-> EmptyMap, credentialIndices |-> EmptyMap]

\* ZKManager.initialize(): builds Poseidon and creates a new tree
ZKInitialize(zk) == [zk EXCEPT !.poseidon = TRUE, !.tree = Some(NewTree)]

getRoot(zk) == IF zk.tree = None THEN SentinelRoot ELSE The(zk.tree).root

\* the duplicate test that also compares the stored credential's content
AlreadyRegisteredSameContent(zk, credential) ==
  Has(zk.credentials, credential.id) /\ zk.credentials[credential.id] = credential

\* this.credentials.has(credential.id)
AlreadyRegistered(zk, credential) == Has(zk.credentials, credential.id)

\* the index taken from the tree size without the initial leaf's offset
TreeIndexOfSize(size) == size

\* Math.max(0, this.merkleTree.size - 1)
TreeIndex(size) == IF size - 1 > 0 THEN size - 1 ELSE 0

\* addCredential inserting the commitment before it tests the id
MTMAddCredentialInsertFirst(zk, credential) ==
  LET z1 == IF zk.tree = None THEN [zk EXCEPT !.tree = Some(NewTree)] ELSE zk
      leaves == The(z1.tree).leaves
      credentialHash == hashCredential(credential)
      treeIndex == TreeIndex(TreeSize(leaves))
      z2 == [z1 EXCEPT !.tree = Some(TreeInsert(The(z1.tree), credentialHash))]
  IN IF TreeContains(leaves, credentialHash)
     THEN [zk |-> z1, ok |-> FALSE, err |-> "hash already exists", index |-> -1]
     ELSE IF AlreadyRegistered(z1, credential)
     THEN [zk |-> z2, ok |-> FALSE, err |-> "already registered", index |-> -1]
     ELSE [zk |-> [z2 EXCEPT !.credentials = Put(@, credential.id, credential),
                            !.leafNodes = Put(@, credential.id, credentialHash),
                            !.credentialIndices = Put(@, credential.id, treeIndex)],
           ok |-> TRUE, err |-> "none", index |-> treeIndex]

\* MerkleTreeManager.addCredential on a manager whose Poseidon is built
MTMAddCredential(zk, credential) ==
  LET z1 == IF zk.tree = None THEN [zk EXCEPT !.tree = Some(NewTree)] ELSE zk
      leaves == The(z1.tree).leaves
      credentialHash == hashCredential(credential)
      treeIndex == TreeIndex(TreeSize(leaves))
  IN IF AlreadyRegistered(z1, credential)
     THEN [zk |-> z1, ok |-> FALSE, err |-> "already registered", index |-> -1]
     ELSE IF TreeContains(leaves, credentialHash)
     THEN [zk |-> z1, ok |-> FALSE, err |-> "hash already exists", index |-> -1]
     ELSE [zk |-> [z1 EXCEPT !.tree = Some(TreeInsert(The(z1.tree), credentialHash)),
                            !.credentials = Put(@, credential.id, credential),
                            !.leafNodes = Put(@, credential.id, credentialHash),
                            !.credentialIndices = Put(@, credential.id, treeIndex)],
           ok |-> TRUE, err |-> "none", index |-> treeIndex]

\* MerkleTreeManager.addCredential on any manager: the tree is created when
\* there is none, and hashCredential throws while Poseidon is not built
TreeManagerAddCredential(zk, credential) ==
  IF zk.poseidon THEN MTMAddCredential(zk, credential)
  ELSE [zk |-> IF zk.tree = None THEN [zk EXCEPT !.tree = Some(NewTree)] ELSE zk,
        ok |-> FALSE, err |-> "HashingUtils not initialized", index |-> -1]

\* a batch that stops at the first item that fails
RECURSIVE addCredentialsBatchAborting(_, _)
addCredentialsBatchAborting(zk, credentials) ==
  IF credentials = <<>> THEN [zk |-> zk, indices |-> <<>>]
  ELSE LET added == TreeManagerAddCredential(zk, Head(credentials))
           rest == addCredentialsBatchAborting(added.zk, Tail(credentials))
       IN IF added.ok
          THEN [zk |-> rest.zk, indices |-> <<added.index>> \o rest.indices]
          ELSE [zk |-> added.zk, indices |-> <<-1>>]

\* MerkleTreeManager.addCredentialsBatch: the manager afterwards and the
\* indices pushed, -1 for an item whose addCredential threw
RECURSIVE addCredentialsBatch(_, _)
addCredentialsBatch(zk, credentials) ==
  IF credentials = <<>> THEN [zk |-> zk, indices |-> <<>>]
  ELSE LET added == TreeManagerAddCredential(zk, Head(credentials))
           rest == addCredentialsBatch(added.zk, Tail(credentials))
       IN [zk |-> rest.zk,
           indices |-> <<IF added.ok THEN added.index ELSE -1>> \o rest.indices]

\* ZKManager.addCredential: lazy initialization, then the tree manager
ZKAddCredential(zk, credential) ==
  MTMAddCredential(IF zk.poseidon THEN zk ELSE ZKInitialize(zk), credential)

\* ------------------------------------------------------------------------
\* StateManager  (src/src/core/zk-manager/state-manager.ts)
\* ------------------------------------------------------------------------
\* a file path is the sequence of its pieces, every occurrence of '.json'
\* a piece of its own
JsonPiece == ".json"

RECURSIVE ReplaceFirst(_, _, _)
ReplaceFirst(path, piece, by) ==
  IF path = <<>> THEN <<>>
  ELSE IF Head(path) = piece THEN <<by>> \o Tail(path)
  ELSE <<Head(path)>> \o ReplaceFirst(Tail(path), piece, by)

\* filePath.replace('.json', '-state.json')
StateFilePath(filePath) == ReplaceFirst(filePath, JsonPiece, "-state.json")

\* JSON text of a number 0..9 read back
ParseNumber(text) == CHOOSE n \in 0..9 : NumToString(n) = text

\* JSON.stringify and JSON.parse of a credential: the scores are numbers
StringifyCredential(credential) ==
  [credential EXCEPT !.scores = [s \in DOMAIN @ |-> NumToString(@[s])]]
ParseCredential(text) ==
  [text EXCEPT !.scores = [s \in DOMAIN @ |-> ParseNumber(@[s])]]

\* v.toString() of a bigint and BigInt(hash) of the decimal text
BigIntToString(v) == [decimal |-> v]
BigIntOf(text) == text.decimal

\* merkleTree.saveToFile: the file holds what determines the tree
TreeFile(tree) == [kind |-> "tree", leaves |-> tree.leaves]

\* the -state.json file: Object.fromEntries of the three Maps, stringified
StateFile(zk) ==
  [kind |-> "state",
   credentials |-> [id \in DOMAIN zk.credentials |-> StringifyCredential(zk.credentials[id])],
   leafNodes |-> [id \in DOMAIN zk.leafNodes |-> BigIntToString(zk.leafNodes[id])],
   credentialIndices |->
      [id \in DOMAIN zk.credentialIndices |-> NumToString(zk.credentialIndices[id])]]

\* saveTreeState(filePath): whether it threw, and the files afterwards; the
\* state file is written after the tree file
saveTreeState(zk, fs, filePath) ==
  IF zk.tree = None THEN [threw |-> TRUE, files |-> fs]
  ELSE [threw |-> FALSE,
        files |-> Put(Put(fs, filePath, TreeFile(The(zk.tree))),
                      StateFilePath(filePath), StateFile(zk))]

\* what IndexedMerkleTree.loadFromFile may do with a file that is not a
\* tree file
ForeignFileOutcomes == {"throws", "emptyTree"}

\* IndexedMerkleTree.loadFromFile(filePath): the tree, or none when it throws
loadFromFile(fs, filePath, onForeign) ==
  IF ~Has(fs, filePath) THEN None
  ELSE IF fs[filePath].kind = "tree"
  THEN Some([leaves |-> fs[filePath].leaves, root |-> TreeRoot(fs[filePath].leaves)])
  ELSE IF onForeign = "throws" THEN None
  ELSE Some(NewTree)

\* loadTreeState(filePath) on a manager: whether it threw, and the manager
\* afterwards
loadTreeState(zk, fs, filePath, onForeign) ==
  LET loadedTree == loadFromFile(fs, filePath, onForeign)
      z1 == [zk EXCEPT !.tree = loadedTree]
      stateFilePath == StateFilePath(filePath)
  IN IF loadedTree = None THEN [threw |-> TRUE, zk |-> zk]
     ELSE IF ~Has(fs, stateFilePath) THEN [threw |-> FALSE, zk |-> [z1 EXCEPT !.poseidon = TRUE]]
     ELSE IF fs[stateFilePath].kind # "state" THEN [threw |-> TRUE, zk |-> z1]
     ELSE LET state == fs[stateFilePath]
          IN [threw |-> FALSE,
              zk |-> [poseidon |-> TRUE,
                      tree |-> loadedTree,
                      credentials |-> [id \in DOMAIN state.credentials |->
                                          ParseCredential(state.credentials[id])],
                      leafNodes |-> [id \in DOMAIN state.leafNodes |->
                                        BigIntOf(state.leafNodes[id])],
                      credentialIndices |-> [id \in DOMAIN state.credentialIndices |->
                                                ParseNumber(state.credentialIndices[id])]]]

\* ------------------------------------------------------------------------
\* ProofGenerator  (src/src/core/zk-manager/proof-generator.ts)
\* ------------------------------------------------------------------------
\* the direction bits of a leaf index, leaf to root
RECURSIVE DirectionBits(_, _)
DirectionBits(index, levels) ==
  IF levels = 0 THEN <<>>
  ELSE <<index % 2>> \o DirectionBits(index \div 2, levels - 1)

generateMembershipProof(credentialHash, leafIndex) ==
  [leafIndex |-> leafIndex,
   siblings |-> [level \in 1..Depth |-> SentinelRoot],
   directions |-> DirectionBits(leafIndex, Depth)]

\* the library's non-membership proof for the probe value credentialHash + 1:
\* the predecessor leaf (the greatest stored value below the probe, which is
\* credentialHash itself when the tree holds it), the value that follows it,
\* and the predecessor's path, which recomputes to the root of the tree as it
\* is when the proof is made
generateNonMembershipProof(zk, credentialHash) ==
  IF zk.tree = None THEN None
  ELSE LET tree == The(zk.tree)
           val == IF TreeContains(tree.leaves, credentialHash)
                  THEN credentialHash ELSE InitialLeaf
       IN Some([query |-> [successorOf |-> credentialHash],
                preLeaf |-> [val |-> val, nextVal |-> [above |-> val]],
                path |-> [recomputesTo |-> tree.root]])

\* the library's check of a non-membership proof against a root: the
\* predecessor's path recomputes to the root, and the probe lies strictly
\* between the predecessor's value and the value that follows it
TreeVerifyNonMembership(root, proof) ==
  /\ proof.path.recomputesTo = root
  /\ proof.preLeaf.val = proof.query.successorOf
  /\ proof.preLeaf.nextVal = [above |-> proof.preLeaf.val]

\* MerkleTreeManager.verifyNonMembershipProof: against this manager's tree
verifyNonMembershipProof(zk, nonMembershipProof) ==
  IF zk.tree = None THEN FALSE
  ELSE TreeVerifyNonMembership(The(zk.tree).root, nonMembershipProof)

\* field.includes('scores.')
IncludesScores(field) == \E i \in 1..(Len(field) - 1) : field[i] = "scores"

\* the value stored under one requested field; None is undefined
RevealedValue(credential, field) ==
  IF IncludesScores(field)
  THEN IF field[2] \in ScoreNames THEN Some(credential.scores[field[2]]) ELSE None
  ELSE IF Len(field) = 1 /\ field[1] \in TopLevelNames
       THEN Some(credential[field[1]]) ELSE None

FieldSet(revealedFields) == {revealedFields[i] : i \in 1..Len(revealedFields)}

\* the projection that always carries the credential id along
RevealAttributesWithId(credential, revealedFields) ==
  [field \in FieldSet(revealedFields) \cup {<<"id">>} |-> RevealedValue(credential, field)]

RevealAttributes(credential, revealedFields) ==
  [field \in FieldSet(revealedFields) |-> RevealedValue(credential, field)]

\* credential.scores[scoreType]
ScoreValue(credential, scoreType) ==
  IF Len(scoreType) = 1 /\ scoreType[1] \in ScoreNames
  THEN Some(credential.scores[scoreType[1]]) ELSE None

\* the comparison with <= in place of <
BelowOrAtMinimum(actualScore, minScore) == IsSome(actualScore) /\ The(actualScore) <= minScore

\* actualScore < minScore, false when actualScore is undefined
BelowMinimum(actualScore, minScore) == IsSome(actualScore) /\ The(actualScore) < minScore

\* the entries of minimumScores that are not met, in iteration order
FailingScores(credential, minimumScores) ==
  SelectSeq(minimumScores,
            LAMBDA e : BelowMinimum(ScoreValue(credential, e.scoreType), e.minScore))

NoProof == [ok |-> FALSE, err |-> "none", field |-> <<>>, proof |-> None]

generateZKProof(zk, credentialId, revealedFields, minimumScoresOpt) ==
  IF ~Has(zk.credentials, credentialId)
  THEN [NoProof EXCEPT !.err = "Credential not found"]
  ELSE IF ~Has(zk.leafNodes, credentialId)
  THEN [NoProof EXCEPT !.err = "Credential hash not found"]
  ELSE IF ~Has(zk.credentialIndices, credentialId)
  THEN [NoProof EXCEPT !.err = "Credential index not found"]
  ELSE IF zk.tree = None
  THEN [NoProof EXCEPT !.err = "Merkle tree not initialized"]
  ELSE
    LET credential == zk.credentials[credentialId]
        credentialHash == zk.leafNodes[credentialId]
        credentialIndex == zk.credentialIndices[credentialId]
        membershipProof == generateMembershipProof(credentialHash, credentialIndex)
        merkleProof == [leaf |-> Some(credentialHash),
                        path |-> membershipProof.siblings,
                        indices |-> <<credentialIndex>>,
                        root |-> Some(getRoot(zk)),
                        membershipProof |-> Some(membershipProof),
                        nonMembershipProof |-> generateNonMembershipProof(zk, credentialHash)]
        failing == IF minimumScoresOpt = None THEN <<>>
                   ELSE FailingScores(credential, The(minimumScoresOpt))
    IN IF failing # <<>>
       THEN [NoProof EXCEPT !.err = "Minimum score requirement not met",
                            !.field = failing[1].scoreType]
       ELSE [ok |-> TRUE, err |-> "none", field |-> <<>>,
             proof |-> Some([type |-> "IndexedMerkleTreeProof2023",
                             proofPurpose |-> "authentication",
                             merkleRoot |-> Some(getRoot(zk)),
                             zkProof |-> Some(merkleProof),
                             revealedAttributes |->
                                Some(RevealAttributes(credential, revealedFields))])]

\* generateZKProofsBatch: the proofs pushed, null (None) for an item whose
\* generateZKProof threw
RECURSIVE generateZKProofsBatch(_, _, _, _)
generateZKProofsBatch(zk, credentialIds, revealedFields, minimumScoresOpt) ==
  IF credentialIds = <<>> THEN <<>>
  ELSE LET g == generateZKProof(zk, Head(credentialIds), revealedFields, minimumScoresOpt)
       IN <<IF g.ok THEN g.proof ELSE None>>
            \o generateZKProofsBatch(zk, Tail(credentialIds), revealedFields,
                                      minimumScoresOpt)

\* ------------------------------------------------------------------------
\* ProofVerifier  (src/src/core/zk-manager/proof-verifier.ts)
\* ------------------------------------------------------------------------
\* verifyMerkleProof: merkleProof && merkleProof.leaf && merkleProof.root
verifyMerkleProof(merkleProofOpt) ==
  /\ IsSome(merkleProofOpt)
  /\ IsSome(The(merkleProofOpt).leaf)
  /\ IsSome(The(merkleProofOpt).root)

\* the leaf folded with the siblings, leaf to root: a direction bit 0 puts
\* the current digest on the left, any other bit on the right
RECURSIVE FoldPath(_, _, _, _)
FoldPath(currentHash, siblings, directions, i) ==
  IF i > Len(siblings) THEN currentHash
  ELSE FoldPath(IF directions[i] = 0
                THEN Poseidon(<<currentHash, siblings[i]>>)
                ELSE Poseidon(<<siblings[i], currentHash>>),
                siblings, directions, i + 1)

\* verifyMembershipProof: false without Poseidon, and when BigInt(leafHash)
\* throws on an undefined leaf
verifyMembershipProof(zk, leafOpt, membershipProof, expectedRoot) ==
  IF ~zk.poseidon \/ leafOpt = None THEN FALSE
  ELSE FoldPath(The(leafOpt), membershipProof.siblings,
                membershipProof.directions, 1) = expectedRoot

\* a root string that is truthy: defined and not the empty string
Truthy(rootOpt) == IsSome(rootOpt) /\ The(rootOpt) # EmptyRoot

\* the early returns of verifyZKProof: an undefined proof throws inside the
\* try; a missing zkProof or falsy merkleRoot, and a truthy expectedRoot
\* that differs from merkleRoot, return false
RootAccepted(proofOpt, expectedRootOpt) ==
  /\ IsSome(proofOpt)
  /\ IsSome(The(proofOpt).zkProof)
  /\ Truthy(The(proofOpt).merkleRoot)
  /\ ~(Truthy(expectedRootOpt) /\ The(The(proofOpt).merkleRoot) # The(expectedRootOpt))

\* the membership check of verifyZKProof, made when the proof carries one
MembershipValid(zk, proof) ==
  LET merkleProof == The(proof.zkProof)
  IN IF IsSome(merkleProof.membershipProof)
     THEN verifyMembershipProof(zk, merkleProof.leaf, The(merkleProof.membershipProof),
                                The(proof.merkleRoot))
     ELSE TRUE

\* the non-membership check of verifyZKProof, made when the proof carries one
NonMembershipValid(zk, proof) ==
  LET merkleProof == The(proof.zkProof)
  IN IF IsSome(merkleProof.nonMembershipProof)
     THEN verifyNonMembershipProof(zk, The(merkleProof.nonMembershipProof))
     ELSE TRUE

\* verification that fails when the membership path does not recompute
verifyZKProofMembershipStrict(zk, proofOpt, expectedRootOpt) ==
  /\ RootAccepted(proofOpt, expectedRootOpt)
  /\ MembershipValid(zk, The(proofOpt))
  /\ verifyMerkleProof(The(proofOpt).zkProof)
  /\ The(The(proofOpt).merkleRoot) # SentinelRoot

\* verification that fails when this manager's tree rejects the
\* non-membership proof
verifyZKProofNonMembershipStrict(zk, proofOpt, expectedRootOpt) ==
  /\ RootAccepted(proofOpt, expectedRootOpt)
  /\ NonMembershipValid(zk, The(proofOpt))
  /\ verifyMerkleProof(The(proofOpt).zkProof)
  /\ The(The(proofOpt).merkleRoot) # SentinelRoot

\* verifyZKProof(proof, expectedRoot) on the manager zk: the membership and
\* non-membership checks only log their outcome
verifyZKProof(zk, proofOpt, expectedRootOpt) ==
  IF ~RootAccepted(proofOpt, expectedRootOpt) THEN FALSE
  ELSE LET proof == The(proofOpt)
           membershipValid == MembershipValid(zk, proof)
           nonMembershipValid == NonMembershipValid(zk, proof)
           hasValidStructure == verifyMerkleProof(proof.zkProof)
           hasValidRoot == The(proof.merkleRoot) # SentinelRoot
       IN hasValidStructure /\ hasValidRoot

\* ------------------------------------------------------------------------
\* Verifiable credentials, requests, presentations  (src/unnamed/part_003)
\* ------------------------------------------------------------------------
VerifiableCredential(issuerId, keyPair, credential) ==
  [id |-> credential.id,
   type |-> {"VerifiableCredential", "IELTSCredential"},
   issuer |-> issuerId,
   issuanceDate |-> "now",
   credentialSubject |-> Some(credential),
   proof |-> Some(signCredential(keyPair, credential))]

\* the current time, on the scale of the credentials' dates
Now == 5

\* a Map in insertion order, as the sequence of its values keyed by .id
MapIndex(seq, id) == {i \in 1..Len(seq) : seq[i].id = id}
MapSet(seq, v) ==
  IF MapIndex(seq, v.id) = {} THEN Append(seq, v)
  ELSE [i \in 1..Len(seq) |-> IF seq[i].id = v.id THEN v ELSE seq[i]]

\* ------------------------------------------------------------------------
\* Holder  (src/src/components/holder.ts)
\* ------------------------------------------------------------------------
\* storeCredential that verifies the signature before it consults the trust set
storeCredentialSignatureFirst(trustedIssuers, credentials, zk, credential) ==
  LET rejected(e) == [err |-> e, credentials |-> credentials, zk |-> zk]
      sig == verifyCredential(credential.credentialSubject, credential.proof)
  IN IF sig.threw
     THEN rejected("TypeError")
     ELSE IF ~sig.verified
     THEN rejected("Credential rejected: Invalid signature")
     ELSE IF credential.issuer \notin trustedIssuers
     THEN rejected("Credential rejected: Untrusted issuer")
     ELSE LET added == ZKAddCredential(zk, The(credential.credentialSubject))
          IN IF ~added.ok
             THEN [err |-> added.err, credentials |-> credentials, zk |-> added.zk]
             ELSE [err |-> "none", credentials |-> MapSet(credentials, credential),
                   zk |-> added.zk]

\* storeCredential: the outcome and the holder's credentials and ZKManager
storeCredential(trustedIssuers, credentials, zk, credential) ==
  LET rejected(e) == [err |-> e, credentials |-> credentials, zk |-> zk]
      sig == verifyCredential(credential.credentialSubject, credential.proof)
  IN IF credential.issuer \notin trustedIssuers
     THEN rejected("Credential rejected: Untrusted issuer")
     ELSE IF sig.threw
     THEN rejected("TypeError")
     ELSE IF ~sig.verified
     THEN rejected("Credential rejected: Invalid signature")
     ELSE IF credential.credentialSubject = None \/ credential.proof = None
     THEN rejected("Credential rejected: Missing required fields")
     ELSE LET added == ZKAddCredential(zk, The(credential.credentialSubject))
          IN IF ~added.ok
             THEN [err |-> added.err, credentials |-> credentials, zk |-> added.zk]
             ELSE [err |-> "none", credentials |-> MapSet(credentials, credential),
                   zk |-> added.zk]

findMatchingCredentials(credentials) ==
  SelectSeq(credentials, LAMBDA c : "IELTSCredential" \in c.type)

\* request.minimumScores[name], None when the request has no such entry
MinimumOf(minimumScoresOpt, name) ==
  IF minimumScoresOpt = None THEN None
  ELSE LET m == The(minimumScoresOpt)
           hits == {i \in 1..Len(m) : m[i].scoreType = <<name>>}
       IN IF hits = {} THEN None ELSE Some(m[CHOOSE i \in hits : TRUE].minScore)

Max0(n) == IF n > 0 THEN n ELSE 0

\* the summed margin of a credential over the requested thresholds
RECURSIVE Advantage(_, _)
Advantage(subject, minimumScores) ==
  IF minimumScores = <<>> THEN 0
  ELSE LET e == Head(minimumScores)
           score == IF Len(e.scoreType) = 1 /\ e.scoreType[1] \in ScoreNames
                    THEN subject.scores[e.scoreType[1]] ELSE 0
       IN Max0(score - e.minScore) + Advantage(subject, Tail(minimumScores))

\* a comparator that looks at the overall score before the certification date
CompareCredentialsScoreFirst(a, b, request) ==
  LET sa == The(a.credentialSubject)
      sb == The(b.credentialSubject)
      aExpired == sa.expiryDate < Now
      bExpired == sb.expiryDate < Now
      byOverall == IsSome(MinimumOf(request.minimumScores, "overall"))
      aAdvantage == IF request.minimumScores = None THEN 0
                    ELSE Advantage(sa, The(request.minimumScores))
      bAdvantage == IF request.minimumScores = None THEN 0
                    ELSE Advantage(sb, The(request.minimumScores))
  IN IF aExpired # bExpired THEN (IF aExpired THEN 1 ELSE -1)
     ELSE IF byOverall /\ sa.scores.overall # sb.scores.overall
     THEN sb.scores.overall - sa.scores.overall
     ELSE IF sa.certificationDate # sb.certificationDate
     THEN sb.certificationDate - sa.certificationDate
     ELSE bAdvantage - aAdvantage

\* the comparator of selectBestCredential: negative when a ranks before b
CompareCredentials(a, b, request) ==
  LET sa == The(a.credentialSubject)
      sb == The(b.credentialSubject)
      aExpired == sa.expiryDate < Now
      bExpired == sb.expiryDate < Now
      byOverall == IsSome(MinimumOf(request.minimumScores, "overall"))
      aAdvantage == IF request.minimumScores = None THEN 0
                    ELSE Advantage(sa, The(request.minimumScores))
      bAdvantage == IF request.minimumScores = None THEN 0
                    ELSE Advantage(sb, The(request.minimumScores))
  IN IF aExpired # bExpired THEN (IF aExpired THEN 1 ELSE -1)
     ELSE IF sa.certificationDate # sb.certificationDate
     THEN sb.certificationDate - sa.certificationDate
     ELSE IF byOverall /\ sa.scores.overall # sb.scores.overall
     THEN sb.scores.overall - sa.scores.overall
     ELSE bAdvantage - aAdvantage

\* sortedCredentials[0] of the stable sort: the first credential that no
\* other credential ranks before
selectBestCredential(credentials, request) ==
  IF Len(credentials) = 1 THEN credentials[1]
  ELSE LET best == {i \in 1..Len(credentials) :
                      /\ \A j \in 1..Len(credentials) :
                            CompareCredentials(credentials[i], credentials[j], request) <= 0}
       IN credentials[CHOOSE i \in best : \A j \in best : i <= j]

NoPresentation == [err |-> "none", field |-> <<>>, presentation |-> None, zkProof |-> None]

\* createPresentation that hands out a presentation although no proof was made
createPresentationLenient(holderId, credentials, zk, request) ==
  LET matchingCredentials == findMatchingCredentials(credentials)
  IN IF Len(matchingCredentials) = 0
     THEN [NoPresentation EXCEPT !.err = "No matching credentials found for the request"]
     ELSE LET credential == selectBestCredential(matchingCredentials, request)
              zkProof == generateZKProof(zk, The(credential.credentialSubject).id,
                                         request.requiredFields, request.minimumScores)
          IN [err |-> "none", field |-> <<>>, zkProof |-> Some(zkProof),
              presentation |-> Some([type |-> {"VerifiablePresentation",
                                               "IELTSPresentation"},
                                     holder |-> holderId,
                                     verifiableCredential |-> <<credential>>,
                                     proof |-> zkProof.proof])]

createPresentation(holderId, credentials, zk, request) ==
  LET matchingCredentials == findMatchingCredentials(credentials)
  IN IF Len(matchingCredentials) = 0
     THEN [NoPresentation EXCEPT !.err = "No matching credentials found for the request"]
     ELSE LET credential == selectBestCredential(matchingCredentials, request)
              zkProof == generateZKProof(zk, The(credential.credentialSubject).id,
                                         request.requiredFields, request.minimumScores)
          IN IF ~zkProof.ok
             THEN [NoPresentation EXCEPT !.err = zkProof.err, !.field = zkProof.field,
                                         !.zkProof = Some(zkProof)]
             ELSE [err |-> "none", field |-> <<>>, zkProof |-> Some(zkProof),
                   presentation |-> Some([type |-> {"VerifiablePresentation",
                                                    "IELTSPresentation"},
                                          holder |-> holderId,
                                          verifiableCredential |-> <<credential>>,
                                          proof |-> zkProof.proof])]

\* ------------------------------------------------------------------------
\* Registry  (src/unnamed/part_002)
\* ------------------------------------------------------------------------
RegistryEntry(credential, treeIndex) ==
  [credentialId |-> credential.id,
   issuer |-> credential.issuer,
   holder |-> The(credential.credentialSubject).holder,
   issuanceDate |-> credential.issuanceDate,
   revoked |-> FALSE,
   merkleTreeIndex |-> treeIndex]

\* registerCredential: the registry's entries, index table and ZKManager
registerCredential(registry, credential) ==
  LET added == ZKAddCredential(registry.zk, The(credential.credentialSubject))
  IN IF ~added.ok
     THEN [err |-> added.err, registry |-> [registry EXCEPT !.zk = added.zk]]
     ELSE [err |-> "none",
           registry |-> [zk |-> added.zk,
                         merkleTreeIndices |->
                            Put(registry.merkleTreeIndices, credential.id, added.index),
                         entries |-> Put(registry.entries, credential.id,
                                         RegistryEntry(credential, added.index))]]

\* revokeCredential without the check of the acting issuer
revokeCredentialAnyIssuer(entries, credentialId, issuer) ==
  IF ~Has(entries, credentialId)
  THEN [ret |-> FALSE, entries |-> entries]
  ELSE [ret |-> TRUE,
        entries |-> [entries EXCEPT ![credentialId] = [@ EXCEPT !.revoked = TRUE]]]

\* revokeCredential(credentialId, issuer): the returned boolean and the entries
revokeCredential(entries, credentialId, issuer) ==
  IF ~Has(entries, credentialId)
  THEN [ret |-> FALSE, entries |-> entries]
  ELSE IF entries[credentialId].issuer # issuer
  THEN [ret |-> FALSE, entries |-> entries]
  ELSE [ret |-> TRUE,
        entries |-> [entries EXCEPT ![credentialId] = [@ EXCEPT !.revoked = TRUE]]]

\* isCredentialRevoked that never consults the entry
isCredentialRevokedNever(entries, credentialId) == FALSE

isCredentialRevoked(entries, credentialId) ==
  IF Has(entries, credentialId) THEN entries[credentialId].revoked ELSE FALSE

\* ------------------------------------------------------------------------
\* Verifier  (src/src/components/verifier.ts)
\* ------------------------------------------------------------------------
ScoresPrefix(scoreType) ==
  IF Len(scoreType) >= 2 /\ scoreType[1] = "scores" THEN scoreType
  ELSE <<"scores">> \o scoreType

\* revealedAttributes[field], None when the key is absent or undefined
Revealed(revealedAttributes, field) ==
  IF field \in DOMAIN revealedAttributes THEN revealedAttributes[field] ELSE None

MaxOverall == 9

\* the final range check on a revealed overall score
OverallReasonable(revealedAttributes) ==
  LET overall == Revealed(revealedAttributes, <<"scores", "overall">>)
  IN ~(/\ IsSome(overall) /\ The(overall) # 0
       /\ (The(overall) < 0 \/ The(overall) > MaxOverall))

checkRequirements(revealedAttributes, requestOpt) ==
  IF requestOpt = None
  THEN DOMAIN revealedAttributes # {} /\ OverallReasonable(revealedAttributes)
  ELSE LET request == The(requestOpt)
           minimumScores == IF request.minimumScores = None THEN <<>>
                            ELSE The(request.minimumScores)
       IN /\ \A i \in 1..Len(request.requiredFields) :
                IsSome(Revealed(revealedAttributes, request.requiredFields[i]))
          /\ \A i \in 1..Len(minimumScores) :
                LET actualScore == Revealed(revealedAttributes,
                                            ScoresPrefix(minimumScores[i].scoreType))
                IN ~(IsSome(actualScore) /\ The(actualScore) < minimumScores[i].minScore)
          /\ OverallReasonable(revealedAttributes)

InitialDetails ==
  [credentialValid |-> FALSE, issuerTrusted |-> FALSE, zkProofValid |-> FALSE,
   requirementsMet |-> FALSE, notRevoked |-> TRUE]

\* the aggregate without the revocation result
ComputeIsValidNoRevocation(details) ==
  /\ details.credentialValid /\ details.issuerTrusted /\ details.zkProofValid
  /\ details.requirementsMet

\* const isValid = credentialValid && issuerTrusted && zkProofValid && ...
ComputeIsValid(details) ==
  /\ details.credentialValid /\ details.issuerTrusted /\ details.zkProofValid
  /\ details.requirementsMet /\ details.notRevoked

\* Verifier.zkManager: constructed and initialize()d; no method of the
\* Verifier adds a credential to it
VerifierZK == ZKInitialize(NewZKManager)

\* a revocation check that takes a credential without entry for revoked
NotRevokedRegisteredOnly(registryOpt, credentialId) ==
  /\ registryOpt # None
  /\ Has(The(registryOpt), credentialId)
  /\ ~isCredentialRevoked(The(registryOpt), credentialId)

\* details.notRevoked: true from the start, assigned only if (this.registry)
NotRevoked(registryOpt, credentialId) ==
  IF registryOpt = None THEN TRUE
  ELSE ~isCredentialRevoked(The(registryOpt), credentialId)

\* verifyPresentation of a Verifier constructed without a Registry
\* (registryOpt = None) or with the Registry holding the given entries
verifyPresentation(trustedIssuers, registryOpt, presentation, requestOpt) ==
  IF Len(presentation.verifiableCredential) = 0
  THEN [isValid |-> FALSE, details |-> InitialDetails, revealedData |-> EmptyMap,
        threw |-> FALSE]
  ELSE
    LET credential == presentation.verifiableCredential[1]
        d1 == [InitialDetails EXCEPT
                 !.notRevoked = NotRevoked(registryOpt, credential.id),
                 !.issuerTrusted = credential.issuer \in trustedIssuers]
        sig == verifyCredential(credential.credentialSubject, credential.proof)
        d2 == [d1 EXCEPT !.credentialValid = sig.verified,
                         !.zkProofValid = verifyZKProof(VerifierZK, presentation.proof, None)]
        caught(d) == [isValid |-> FALSE, details |-> d, revealedData |-> EmptyMap,
                      threw |-> TRUE]
    IN IF sig.threw THEN caught(d1)
       ELSE IF presentation.proof = None THEN caught(d2)
       ELSE IF The(presentation.proof).revealedAttributes = None THEN caught(d2)
       ELSE LET revealedAttributes == The(The(presentation.proof).revealedAttributes)
                details == [d2 EXCEPT !.requirementsMet =
                                        checkRequirements(revealedAttributes, requestOpt)]
            IN [isValid |-> ComputeIsValid(details), details |-> details,
                revealedData |-> revealedAttributes, threw |-> FALSE]

\* ------------------------------------------------------------------------
\* Inputs of the operations
\* ------------------------------------------------------------------------
Thresholds == MinThreshold..MaxThreshold

MinEntry(name, t) == [scoreType |-> <<name>>, minScore |-> t]

\* requests a verifier sends: required fields and optional minimum scores
RequiredFieldsOpts == { <<<<"name">>>>, <<<<"name">>, <<"scores", "overall">>>> }

MinimumScoresOpts ==
  {None, Some(<<MinEntry("listening", MaxThreshold), MinEntry("overall", MaxThreshold)>>)}
    \cup {Some(<<MinEntry("overall", t)>>) : t \in Thresholds}

PresentationRequest(requiredFields, minimumScores) ==
  [verifier |-> "verifier-1", requiredFields |-> requiredFields,
   minimumScores |-> minimumScores, purpose |-> "admission"]

Requests ==
  {PresentationRequest(f, m) : f \in RequiredFieldsOpts, m \in MinimumScoresOpts}

\* what a holder may be handed: a credential as issued, or the same
\* credential renamed to another issuer, altered after signing, or stripped
\* of a sub-object
CredentialTampers == {"asIssued", "otherIssuer", "alteredScore", "noSubject", "noProof"}

TamperCredential(vc, how) ==
  CASE how = "asIssued" -> vc
    [] how = "otherIssuer" -> [vc EXCEPT !.issuer = "issuer-2"]
    [] how = "alteredScore" ->
         [vc EXCEPT !.credentialSubject = Some(WithScore(The(@), "overall", MaxOverall))]
    [] how = "noSubject" -> [vc EXCEPT !.credentialSubject = None]
    [] how = "noProof" -> [vc EXCEPT !.proof = None]

\* what a verifier may be handed: a presentation as created, or altered
PresentationTampers ==
  {"asCreated", "noCredential", "alteredScore", "noSubject", "noProof",
   "noRevealedAttributes", "sentinelRoot"}

TamperPresentation(p, how) ==
  CASE how = "asCreated" -> p
    [] how = "noCredential" -> [p EXCEPT !.verifiableCredential = <<>>]
    [] how = "alteredScore" ->
         [p EXCEPT !.verifiableCredential =
            <<[@[1] EXCEPT !.credentialSubject =
                  Some(WithScore(The(@), "overall", MaxOverall))]>>]
    [] how = "noSubject" ->
         [p EXCEPT !.verifiableCredential = <<[@[1] EXCEPT !.credentialSubject = None]>>]
    [] how = "noProof" -> [p EXCEPT !.proof = None]
    [] how = "noRevealedAttributes" ->
         [p EXCEPT !.proof = Some([The(@) EXCEPT !.revealedAttributes = None])]
    [] how = "sentinelRoot" ->
         [p EXCEPT !.proof = Some([The(@) EXCEPT !.merkleRoot = Some(SentinelRoot)])]

\* ------------------------------------------------------------------------
\* State
\* ------------------------------------------------------------------------
VARIABLES
  issuerZK,            \* Issuer.zkManager
  issuedCredentials,   \* Issuer.issuedCredentials, in insertion order
  holderTrusted,       \* Holder.trustedIssuers
  holderCredentials,   \* Holder.credentials, in insertion order
  holderZK,            \* Holder.zkManager
  verifierTrusted,     \* Verifier.trustedIssuers
  registry,            \* Registry: entries, merkleTreeIndices, zkManager
  presentation,        \* the presentation in flight from holder to verifier
  zkm,                 \* a ZKManager used on its own
  calls,               \* the addCredential calls in flight on zkm
  files,               \* the files saveTreeState wrote: path to content
  res                  \* the last operation: its inputs and what it returned

vars == <<issuerZK, issuedCredentials, holderTrusted, holderCredentials, holderZK,
          verifierTrusted, registry, presentation, zkm, calls, files, res>>

roleVars == <<issuerZK, issuedCredentials, holderTrusted, holderCredentials, holderZK,
              verifierTrusted, registry, presentation>>

\* the addCredential calls that may be in flight at once
CallIds == 1..MaxCalls

\* a call not yet made: its position, its argument, the treeIndex it read and
\* the index it returned
IdleCall == [pc |-> "idle", credential |-> None, treeIndex |-> -1, index |-> -1]

HolderId == "holder-1"
IssuerId == "issuer-1"

\* every party constructed and initialize()d, nothing issued yet
Init ==
  /\ issuerZK = ZKInitialize(NewZKManager)
  /\ issuedCredentials = <<>>
  /\ holderTrusted = {}
  /\ holderCredentials = <<>>
  /\ holderZK = ZKInitialize(NewZKManager)
  /\ verifierTrusted = {}
  /\ registry = [zk |-> ZKInitialize(NewZKManager), merkleTreeIndices |-> EmptyMap,
                 entries |-> EmptyMap]
  /\ presentation = None
  /\ zkm = NewZKManager
  /\ calls = [k \in CallIds |-> IdleCall]
  /\ files = EmptyMap
  /\ res = [op |-> "init"]

\* ------------------------------------------------------------------------
\* Issuer  (src/src/components/issuer.ts)
\* ------------------------------------------------------------------------
IssueCredential(credentialData) ==
  LET added == ZKAddCredential(issuerZK, credentialData)
      vc == VerifiableCredential(IssuerId, IssuerKey, credentialData)
  IN /\ issuerZK' = added.zk
     /\ issuedCredentials' = IF added.ok THEN MapSet(issuedCredentials, vc)
                             ELSE issuedCredentials
     /\ res' = [op |-> "issue", err |-> added.err, id |-> credentialData.id]
     /\ UNCHANGED <<holderTrusted, holderCredentials, holderZK, verifierTrusted,
                    registry, presentation, zkm, calls, files>>

\* ------------------------------------------------------------------------
\* Trust sets
\* ------------------------------------------------------------------------
HolderAddTrustedIssuer(issuerId) ==
  /\ holderTrusted' = holderTrusted \cup {issuerId}
  /\ res' = [op |-> "holderAddTrustedIssuer", issuer |-> issuerId]
  /\ UNCHANGED <<issuerZK, issuedCredentials, holderCredentials, holderZK,
                 verifierTrusted, registry, presentation, zkm, calls, files>>

VerifierAddTrustedIssuer(issuerId) ==
  /\ verifierTrusted' = verifierTrusted \cup {issuerId}
  /\ res' = [op |-> "verifierAddTrustedIssuer", issuer |-> issuerId]
  /\ UNCHANGED <<issuerZK, issuedCredentials, holderTrusted, holderCredentials,
                 holderZK, registry, presentation, zkm, calls, files>>

\* a removal that leaves the trust set as it is
VerifierRemoveTrustedIssuerKeeps(issuerId) ==
  /\ verifierTrusted' = verifierTrusted
  /\ res' = [op |-> "verifierRemoveTrustedIssuer", issuer |-> issuerId]
  /\ UNCHANGED <<issuerZK, issuedCredentials, holderTrusted, holderCredentials,
                 holderZK, registry, presentation, zkm, calls, files>>

VerifierRemoveTrustedIssuer(issuerId) ==
  /\ verifierTrusted' = verifierTrusted \ {issuerId}
  /\ res' = [op |-> "verifierRemoveTrustedIssuer", issuer |-> issuerId]
  /\ UNCHANGED <<issuerZK, issuedCredentials, holderTrusted, holderCredentials,
                 holderZK, registry, presentation, zkm, calls, files>>

\* ------------------------------------------------------------------------
\* Holder
\* ------------------------------------------------------------------------
StoreCredential(credential) ==
  LET r == storeCredential(holderTrusted, holderCredentials, holderZK, credential)
  IN /\ holderCredentials' = r.credentials
     /\ holderZK' = r.zk
     /\ res' = [op |-> "store", err |-> r.err, credential |-> credential,
                trusted |-> holderTrusted]
     /\ UNCHANGED <<issuerZK, issuedCredentials, holderTrusted, verifierTrusted,
                    registry, presentation, zkm, calls, files>>

CreatePresentation(request) ==
  LET r == createPresentation(HolderId, holderCredentials, holderZK, request)
  IN /\ presentation' = IF IsSome(r.presentation) THEN r.presentation ELSE presentation
     /\ res' = [op |-> "present", err |-> r.err, field |-> r.field,
                request |-> request, presentation |-> r.presentation,
                zkProof |-> r.zkProof]
     /\ UNCHANGED <<issuerZK, issuedCredentials, holderTrusted, holderCredentials,
                    holderZK, verifierTrusted, registry, zkm, calls, files>>

\* ------------------------------------------------------------------------
\* Registry
\* ------------------------------------------------------------------------
RegisterCredential(credential) ==
  LET r == registerCredential(registry, credential)
  IN /\ registry' = r.registry
     /\ res' = [op |-> "register", err |-> r.err, id |-> credential.id]
     /\ UNCHANGED <<issuerZK, issuedCredentials, holderTrusted, holderCredentials,
                    holderZK, verifierTrusted, presentation, zkm, calls, files>>

\* a revocation that also takes the commitment out of the Registry's
\* accumulator by building its tree anew
RevokeCredentialRebuildsTree(credentialId, issuer) ==
  LET r == revokeCredential(registry.entries, credentialId, issuer)
  IN /\ registry' = [registry EXCEPT !.entries = r.entries,
                                      !.zk = IF r.ret THEN ZKInitialize(@) ELSE @]
     /\ res' = [op |-> "revoke", ret |-> r.ret, id |-> credentialId, issuer |-> issuer]
     /\ UNCHANGED <<issuerZK, issuedCredentials, holderTrusted, holderCredentials,
                    holderZK, verifierTrusted, presentation, zkm, calls, files>>

RevokeCredential(credentialId, issuer) ==
  LET r == revokeCredential(registry.entries, credentialId, issuer)
  IN /\ registry' = [registry EXCEPT !.entries = r.entries]
     /\ res' = [op |-> "revoke", ret |-> r.ret, id |-> credentialId, issuer |-> issuer]
     /\ UNCHANGED <<issuerZK, issuedCredentials, holderTrusted, holderCredentials,
                    holderZK, verifierTrusted, presentation, zkm, calls, files>>

\* ------------------------------------------------------------------------
\* Verifier (attached to the registry)
\* ------------------------------------------------------------------------
VerifyPresentation(p, requestOpt) ==
  LET r == verifyPresentation(verifierTrusted, Some(registry.entries), p, requestOpt)
  IN /\ res' = [op |-> "verify", isValid |-> r.isValid, details |-> r.details,
                revealedData |-> r.revealedData, threw |-> r.threw,
                presentation |-> p, request |-> requestOpt]
     /\ UNCHANGED <<issuerZK, issuedCredentials, holderTrusted, holderCredentials,
                    holderZK, verifierTrusted, registry, presentation, zkm, calls, files>>

Next ==
  \/ \E c \in CredPool : IssueCredential(c)
  \/ HolderAddTrustedIssuer(IssuerId)
  \/ VerifierAddTrustedIssuer(IssuerId)
  \/ VerifierRemoveTrustedIssuer(IssuerId)
  \/ \E i \in 1..Len(issuedCredentials), how \in CredentialTampers :
        StoreCredential(TamperCredential(issuedCredentials[i], how))
  \/ \E rq \in Requests : CreatePresentation(rq)
  \/ \E i \in 1..Len(issuedCredentials) : RegisterCredential(issuedCredentials[i])
  \/ \E id \in CredIds, i \in IssuerIds : RevokeCredential(id, i)
  \/ /\ IsSome(presentation)
     /\ \E how \in PresentationTampers, rq \in {None} \cup {Some(q) : q \in Requests} :
           VerifyPresentation(TamperPresentation(The(presentation), how), rq)

Spec == Init /\ [][Next]_vars

\* ------------------------------------------------------------------------
\* A ZKManager used on its own  (src/unnamed/part_001)
\* ------------------------------------------------------------------------
\* revealedFields of a call: plain and dotted names, a repeated name, and
\* names the credential does not have
RevealedFieldsOpts ==
  { <<>>,
    <<<<"name">>>>,
    <<<<"name">>, <<"scores", "overall">>>>,
    <<<<"scores", "listening">>, <<"name">>, <<"name">>>>,
    <<<<"overall">>, <<"scores", "grammar">>>> }

ZKMinimumScoresOpts ==
  {None}
    \cup {Some(<<MinEntry(f, t)>>) : f \in ScoreNames, t \in Thresholds}
    \cup {Some(<<MinEntry("listening", MaxThreshold), MinEntry("overall", t)>>) :
             t \in Thresholds}

ZKMAddCredential(credential) ==
  LET r == ZKAddCredential(zkm, credential)
  IN /\ zkm' = r.zk
     /\ res' = [op |-> "addCredential", ok |-> r.ok, err |-> r.err,
                index |-> r.index, id |-> credential.id, credential |-> credential]
     /\ UNCHANGED <<roleVars, files, calls>>

ZKMGenerateZKProof(credentialId, revealedFields, minimumScoresOpt) ==
  LET r == generateZKProof(zkm, credentialId, revealedFields, minimumScoresOpt)
  IN /\ res' = [op |-> "generateZKProof", ok |-> r.ok, err |-> r.err,
                field |-> r.field, proof |-> r.proof, id |-> credentialId,
                revealedFields |-> revealedFields, minimumScores |-> minimumScoresOpt]
     /\ UNCHANGED <<roleVars, files, zkm, calls>>

NextZK ==
  \/ \E c \in ZKCredPool : ZKMAddCredential(c)
  \/ \E id \in CredIds, f \in RevealedFieldsOpts, m \in ZKMinimumScoresOpts :
        ZKMGenerateZKProof(id, f, m)

SpecZK == Init /\ [][NextZK]_vars

\* ------------------------------------------------------------------------
\* A ZKManager accumulating credentials, one call after the other
\* ------------------------------------------------------------------------
\* the credentials added: four ids, one of them with two score sheets
AddPool ==
  ZKCredPool \cup { IELTSCredential("c3", "carol", 7, 7, 3, 9),
                    IELTSCredential("c4", "dave", 7, 7, 4, 9) }

NextAdd == \E c \in AddPool : ZKMAddCredential(c)

SpecAdd == Init /\ [][NextAdd]_vars

\* ------------------------------------------------------------------------
\* A ZKManager whose initialize() is called at any time between additions
\* ------------------------------------------------------------------------
ZKMInitialize ==
  /\ zkm' = ZKInitialize(zkm)
  /\ res' = [op |-> "initialize", hadTree |-> IsSome(zkm.tree)]
  /\ UNCHANGED <<roleVars, files, calls>>

NextInit ==
  \/ \E c \in AddPool : ZKMAddCredential(c)
  \/ ZKMInitialize

SpecInit == Init /\ [][NextInit]_vars

\* ------------------------------------------------------------------------
\* ZKManager.addCredential calls in flight at once: each call runs from one
\* await to the next without interruption, and the calls interleave at
\* their awaits.  IndexedMerkleTree.insert takes effect when it is called.
\* ------------------------------------------------------------------------
ConcPool ==
  { FirstCredential, SecondCredential, IELTSCredential("c1", "alice", 6, 8, 1, 9) }

\* MerkleTreeManager.addCredential up to its first await: the tree is
\* created if there is none, else the credential is hashed
EnterTreeManager(k) ==
  IF zkm.tree = None
  THEN /\ zkm' = [zkm EXCEPT !.tree = Some(NewTree)]
       /\ calls' = [calls EXCEPT ![k].pc = "treeInitialize"]
  ELSE /\ zkm' = zkm
       /\ calls' = [calls EXCEPT ![k].pc = "hashCredential"]

\* await zkManager.initialize() completed before any call is made
ConcInitialize ==
  /\ ~zkm.poseidon
  /\ \A k \in CallIds : calls[k].pc = "idle"
  /\ zkm' = ZKInitialize(zkm)
  /\ UNCHANGED <<roleVars, files, calls, res>>

\* addCredential(credential) is called: without Poseidon it awaits
\* initialize(), which awaits buildPoseidon()
CallStart(k, credential) ==
  /\ calls[k].pc = "idle"
  /\ IF ~zkm.poseidon
     THEN /\ calls' = [calls EXCEPT ![k] = [@ EXCEPT !.pc = "buildPoseidon",
                                                     !.credential = Some(credential)]]
          /\ zkm' = zkm
     ELSE IF zkm.tree = None
     THEN /\ zkm' = [zkm EXCEPT !.tree = Some(NewTree)]
          /\ calls' = [calls EXCEPT ![k] = [@ EXCEPT !.pc = "treeInitialize",
                                                     !.credential = Some(credential)]]
     ELSE /\ zkm' = zkm
          /\ calls' = [calls EXCEPT ![k] = [@ EXCEPT !.pc = "hashCredential",
                                                     !.credential = Some(credential)]]
  /\ UNCHANGED <<roleVars, files, res>>

\* HashingUtils.initialize resumes: this.poseidonHash = <built>
CallPoseidonBuilt(k) ==
  /\ calls[k].pc = "buildPoseidon"
  /\ zkm' = [zkm EXCEPT !.poseidon = TRUE]
  /\ calls' = [calls EXCEPT ![k].pc = "hashingInitialized"]
  /\ UNCHANGED <<roleVars, files, res>>

\* ZKManager.initialize resumes: merkleTreeManager.initialize() creates a tree
CallCreateTree(k) ==
  /\ calls[k].pc = "hashingInitialized"
  /\ zkm' = [zkm EXCEPT !.tree = Some(NewTree)]
  /\ calls' = [calls EXCEPT ![k].pc = "initialized"]
  /\ UNCHANGED <<roleVars, files, res>>

\* ZKManager.addCredential resumes and calls merkleTreeManager.addCredential
CallEnter(k) ==
  /\ calls[k].pc = "initialized"
  /\ EnterTreeManager(k)
  /\ UNCHANGED <<roleVars, files, res>>

\* MerkleTreeManager.addCredential resumes after its own initialize()
CallTreeReady(k) ==
  /\ calls[k].pc = "treeInitialize"
  /\ calls' = [calls EXCEPT ![k].pc = "hashCredential"]
  /\ UNCHANGED <<roleVars, files, zkm, res>>

\* ... resumes with the hash: the id test, the treeIndex read, insert
CallInsert(k) ==
  LET credential == The(calls[k].credential)
      tree == The(zkm.tree)
      credentialHash == hashCredential(credential)
      treeIndex == TreeIndex(TreeSize(tree.leaves))
  IN /\ calls[k].pc = "hashCredential"
     /\ IF AlreadyRegistered(zkm, credential) \/ TreeContains(tree.leaves, credentialHash)
        THEN /\ calls' = [calls EXCEPT ![k].pc = "failed"]
             /\ zkm' = zkm
        ELSE /\ calls' = [calls EXCEPT ![k] = [@ EXCEPT !.pc = "insert",
                                                        !.treeIndex = treeIndex]]
             /\ zkm' = [zkm EXCEPT !.tree = Some(TreeInsert(tree, credentialHash))]
     /\ UNCHANGED <<roleVars, files, res>>

\* ... resumes after insert: the three side tables are written and the
\* index read before the insert is returned
CallRecord(k) ==
  LET credential == The(calls[k].credential)
      treeIndex == calls[k].treeIndex
  IN /\ calls[k].pc = "insert"
     /\ zkm' = [zkm EXCEPT !.credentials = Put(@, credential.id, credential),
                           !.leafNodes = Put(@, credential.id, hashCredential(credential)),
                           !.credentialIndices = Put(@, credential.id, treeIndex)]
     /\ calls' = [calls EXCEPT ![k] = [@ EXCEPT !.pc = "returned", !.index = treeIndex]]
     /\ UNCHANGED <<roleVars, files, res>>

NextConc ==
  \/ ConcInitialize
  \/ \E k \in CallIds, c \in ConcPool : CallStart(k, c)
  \/ \E k \in CallIds : CallPoseidonBuilt(k)
  \/ \E k \in CallIds : CallCreateTree(k)
  \/ \E k \in CallIds : CallEnter(k)
  \/ \E k \in CallIds : CallTreeReady(k)
  \/ \E k \in CallIds : CallInsert(k)
  \/ \E k \in CallIds : CallRecord(k)

SpecConc == Init /\ [][NextConc]_vars

\* ------------------------------------------------------------------------
\* A ZKManager verifying the proofs of other parties
\* ------------------------------------------------------------------------
\* managers other parties hold: never initialized, initialized and empty,
\* and holding one or two credentials in either order
RECURSIVE ManagerAfter(_)
ManagerAfter(credentials) ==
  IF credentials = <<>> THEN NewZKManager
  ELSE ZKAddCredential(ManagerAfter(SubSeq(credentials, 1, Len(credentials) - 1)),
                       credentials[Len(credentials)]).zk

ManagerStates ==
  { NewZKManager, ZKInitialize(NewZKManager),
    ManagerAfter(<<FirstCredential>>),
    ManagerAfter(<<FirstCredential, SecondCredential>>),
    ManagerAfter(<<SecondCredential, FirstCredential>>) }

\* the proofs a manager generates for the credentials it holds
ProofsOf(zk) ==
  { The(generateZKProof(zk, id, <<<<"name">>>>, None).proof) : id \in DOMAIN zk.credentials }

\* the proofs handed to verifyZKProof
ProofPool == UNION { ProofsOf(zk) : zk \in ManagerStates }

\* what may have happened to a proof on its way to the verifying party
ProofTampers ==
  { "asGenerated", "alteredSibling", "flippedDirection", "alteredPreLeaf",
    "otherRoot", "noZkProof", "noMerkleRoot", "emptyRoot", "sentinelRoot" }

OtherRoot == TreeRoot(<<hashCredential(IELTSCredential("c3", "carol", 7, 7, 3, 9))>>)

TamperProof(proof, how) ==
  LET merkleProof == The(proof.zkProof)
      membershipProof == The(merkleProof.membershipProof)
  IN CASE how = "asGenerated" -> proof
       [] how = "alteredSibling" ->
            [proof EXCEPT !.zkProof = Some([merkleProof EXCEPT !.membershipProof =
               Some([membershipProof EXCEPT !.siblings[1] = InitialLeaf])])]
       [] how = "flippedDirection" ->
            [proof EXCEPT !.zkProof = Some([merkleProof EXCEPT !.membershipProof =
               Some([membershipProof EXCEPT !.directions[Depth] = 1 - @])])]
       [] how = "alteredPreLeaf" ->
            [proof EXCEPT !.zkProof = Some([merkleProof EXCEPT !.nonMembershipProof =
               Some([The(@) EXCEPT !.preLeaf.val = InitialLeaf])])]
       [] how = "otherRoot" -> [proof EXCEPT !.merkleRoot = Some(OtherRoot)]
       [] how = "noZkProof" -> [proof EXCEPT !.zkProof = None]
       [] how = "noMerkleRoot" -> [proof EXCEPT !.merkleRoot = None]
       [] how = "emptyRoot" -> [proof EXCEPT !.merkleRoot = Some(EmptyRoot)]
       [] how = "sentinelRoot" -> [proof EXCEPT !.merkleRoot = Some(SentinelRoot)]

\* the expectedRoot argument: left out, the empty string, the proof's own
\* root, the verifying manager's root, '0'
ExpectedRoots(proof, zk) ==
  { None, Some(EmptyRoot), Some(SentinelRoot), Some(getRoot(zk)) } \cup {proof.merkleRoot}

ZKMVerifyZKProof(generated, how, expectedRootOpt) ==
  LET proof == TamperProof(generated, how)
  IN /\ res' = [op |-> "verifyZKProof",
                result |-> verifyZKProof(zkm, Some(proof), expectedRootOpt),
                proof |-> proof, generated |-> generated, how |-> how,
                expectedRoot |-> expectedRootOpt]
     /\ UNCHANGED <<roleVars, files, zkm, calls>>

NextPV ==
  \/ \E c \in {FirstCredential, SecondCredential} : ZKMAddCredential(c)
  \/ \E g \in ProofPool, how \in ProofTampers :
        \E e \in ExpectedRoots(TamperProof(g, how), zkm) : ZKMVerifyZKProof(g, how, e)

SpecPV == Init /\ [][NextPV]_vars

\* ------------------------------------------------------------------------
\* A ZKManager given batches
\* ------------------------------------------------------------------------
MaxBatch == 3

\* minimumScores of a call: none, and one the stored score sheets do not all meet
AccMinimumScoresOpts == {None, Some(<<MinEntry("overall", MaxThreshold)>>)}

\* the sequences of at most n elements of a set
SeqsUpTo(S, n) == UNION {[1..k -> S] : k \in 0..n}

BatchPool == {FirstCredential, SecondCredential}

\* the ids asked for in a batch: two that may be stored and one that never is
BatchIds == {"c1", "c2", "c9"}

ZKMAddCredentialsBatch(credentials) ==
  LET r == addCredentialsBatch(zkm, credentials)
  IN /\ zkm' = r.zk
     /\ res' = [op |-> "addCredentialsBatch", credentials |-> credentials,
                indices |-> r.indices]
     /\ UNCHANGED <<roleVars, files, calls>>

ZKMGenerateZKProofsBatch(credentialIds, revealedFields, minimumScoresOpt) ==
  /\ res' = [op |-> "generateZKProofsBatch", credentialIds |-> credentialIds,
             revealedFields |-> revealedFields, minimumScores |-> minimumScoresOpt,
             proofs |-> generateZKProofsBatch(zkm, credentialIds, revealedFields,
                                              minimumScoresOpt)]
  /\ UNCHANGED <<roleVars, files, zkm, calls>>

NextBatch ==
  \/ \E c \in BatchPool : ZKMAddCredential(c)
  \/ \E cs \in SeqsUpTo(BatchPool, MaxBatch) : ZKMAddCredentialsBatch(cs)
  \/ \E ids \in SeqsUpTo(BatchIds, MaxBatch - 1), m \in AccMinimumScoresOpts :
        ZKMGenerateZKProofsBatch(ids, <<<<"name">>>>, m)

SpecBatch == Init /\ [][NextBatch]_vars

\* ------------------------------------------------------------------------
\* A Holder storing several credentials and answering requests
\* ------------------------------------------------------------------------
\* an older certificate with the highest scores, an expired one of the
\* latest date, and two of one certification date that tie when no
\* threshold is requested
HolderPool ==
  { IELTSCredential("h1", "alice", 8, 8, 1, 9),
    IELTSCredential("h2", "alice", 7, 8, 3, 3),
    IELTSCredential("h3", "alice", 7, 8, 2, 9),
    IELTSCredential("h4", "alice", 8, 7, 2, 9) }

HolderMinimumScoresOpts ==
  {None, Some(<<MinEntry("listening", MinThreshold), MinEntry("overall", MinThreshold)>>)}
    \cup {Some(<<MinEntry(f, t)>>) : f \in {"listening", "overall"}, t \in Thresholds}

HolderRequests == {PresentationRequest(<<<<"name">>>>, m) : m \in HolderMinimumScoresOpts}

NextHolder ==
  \/ HolderAddTrustedIssuer(IssuerId)
  \/ \E c \in HolderPool : StoreCredential(VerifiableCredential(IssuerId, IssuerKey, c))
  \/ \E rq \in HolderRequests : CreatePresentation(rq)

SpecHolder == Init /\ [][NextHolder]_vars

\* ------------------------------------------------------------------------
\* Two Verifiers, one constructed with the Registry and one without
\* ------------------------------------------------------------------------
\* the trust set of the Verifier constructed without a Registry
UnattachedTrusted == {IssuerId}

UnattachedVerifyPresentation(p, requestOpt) ==
  LET r == verifyPresentation(UnattachedTrusted, None, p, requestOpt)
  IN /\ res' = [op |-> "verifyUnattached", isValid |-> r.isValid, details |-> r.details,
                revealedData |-> r.revealedData, threw |-> r.threw,
                presentation |-> p, request |-> requestOpt]
     /\ UNCHANGED <<issuerZK, issuedCredentials, holderTrusted, holderCredentials,
                    holderZK, verifierTrusted, registry, presentation, zkm, calls, files>>

RevocationTampers == {"asCreated", "noCredential", "noSubject"}

NextRevocation ==
  \/ \E c \in CredPool : IssueCredential(c)
  \/ HolderAddTrustedIssuer(IssuerId)
  \/ VerifierAddTrustedIssuer(IssuerId)
  \/ \E i \in 1..Len(issuedCredentials) : StoreCredential(issuedCredentials[i])
  \/ CreatePresentation(PresentationRequest(<<<<"name">>>>, None))
  \/ \E i \in 1..Len(issuedCredentials) : RegisterCredential(issuedCredentials[i])
  \/ \E id \in CredIds, i \in IssuerIds : RevokeCredential(id, i)
  \/ /\ IsSome(presentation)
     /\ \E how \in RevocationTampers :
           \/ VerifyPresentation(TamperPresentation(The(presentation), how), None)
           \/ UnattachedVerifyPresentation(TamperPresentation(The(presentation), how), None)

SpecRevocation == Init /\ [][NextRevocation]_vars

\* ------------------------------------------------------------------------
\* A Holder and a Verifier handed credentials signed with another key pair
\* ------------------------------------------------------------------------
\* the key pair of a party that is in no trust set
AttackerKey == "key-attacker"

SigningKeys == {IssuerKey, AttackerKey}

NextForge ==
  \/ HolderAddTrustedIssuer(IssuerId)
  \/ VerifierAddTrustedIssuer(IssuerId)
  \/ \E c \in CredPool, k \in SigningKeys :
        StoreCredential(VerifiableCredential(IssuerId, k, c))
  \/ \E rq \in Requests : CreatePresentation(rq)
  \/ /\ IsSome(presentation)
     /\ \E rq \in {None} \cup {Some(q) : q \in Requests} :
           VerifyPresentation(The(presentation), rq)

SpecForge == Init /\ [][NextForge]_vars

\* ------------------------------------------------------------------------
\* A Verifier handed presentations whose revealed attributes were altered
\* ------------------------------------------------------------------------
RevealedTampers == {"asCreated", "alteredName", "alteredOverall"}

\* proof.revealedAttributes with one entry overwritten or added
SetRevealed(revealedAttributes, field, value) ==
  [f \in DOMAIN revealedAttributes \cup {field} |->
     IF f = field THEN Some(value) ELSE revealedAttributes[f]]

TamperRevealed(p, how) ==
  CASE how = "asCreated" -> p
    [] how = "alteredName" ->
         [p EXCEPT !.proof = Some([The(@) EXCEPT !.revealedAttributes =
                                     Some(SetRevealed(The(@), <<"name">>, "mallory"))])]
    [] how = "alteredOverall" ->
         [p EXCEPT !.proof = Some([The(@) EXCEPT !.revealedAttributes =
                                     Some(SetRevealed(The(@), <<"scores", "overall">>,
                                                      MaxOverall))])]

NextReveal ==
  \/ \E c \in CredPool : IssueCredential(c)
  \/ HolderAddTrustedIssuer(IssuerId)
  \/ VerifierAddTrustedIssuer(IssuerId)
  \/ \E i \in 1..Len(issuedCredentials) : StoreCredential(issuedCredentials[i])
  \/ \E rq \in Requests : CreatePresentation(rq)
  \/ /\ IsSome(presentation)
     /\ \E how \in RevealedTampers, rq \in {None} \cup {Some(q) : q \in Requests} :
           VerifyPresentation(TamperRevealed(The(presentation), how), rq)

SpecReveal == Init /\ [][NextReveal]_vars

\* ------------------------------------------------------------------------
\* A ZKManager saved to files, and new managers loading them
\* ------------------------------------------------------------------------
\* the credentials added: three ids, one of them with two score sheets
AccPool == ZKCredPool \cup {IELTSCredential("c3", "carol", 7, 7, 3, 9)}

\* './tree.json' and './tree.dat'
FilePaths == { <<"./tree", ".json">>, <<"./tree.dat">> }

ZKMSaveTreeState(filePath) ==
  LET r == saveTreeState(zkm, files, filePath)
  IN /\ files' = r.files
     /\ res' = [op |-> "saveTreeState", filePath |-> filePath, threw |-> r.threw]
     /\ UNCHANGED <<roleVars, zkm, calls>>

\* new ZKManager().loadTreeState(filePath)
NewManagerLoadTreeState(filePath, onForeign) ==
  LET r == loadTreeState(NewZKManager, files, filePath, onForeign)
  IN /\ res' = [op |-> "loadTreeState", filePath |-> filePath, threw |-> r.threw,
                loaded |-> r.zk]
     /\ UNCHANGED <<roleVars, files, zkm, calls>>

NextSave ==
  \/ \E c \in AccPool : ZKMAddCredential(c)
  \/ \E f \in FilePaths : ZKMSaveTreeState(f)
  \/ \E f \in FilePaths, o \in ForeignFileOutcomes : NewManagerLoadTreeState(f, o)

SpecSave == Init /\ [][NextSave]_vars

\* ------------------------------------------------------------------------
\* An accumulator between whose insertions proofs are generated and
\* verified, and a Registry whose entries are revoked
\* ------------------------------------------------------------------------
NextAcc ==
  \/ \E c \in AccPool : ZKMAddCredential(c)
  \/ \E id \in CredIds, m \in AccMinimumScoresOpts :
        ZKMGenerateZKProof(id, <<<<"name">>>>, m)
  \/ \E g \in ProofPool : ZKMVerifyZKProof(g, "asGenerated", None)
  \/ \E c \in {FirstCredential, SecondCredential} :
        RegisterCredential(VerifiableCredential(IssuerId, IssuerKey, c))
  \/ \E id \in CredIds : RevokeCredential(id, IssuerId)

SpecAcc == Init /\ [][NextAcc]_vars

\* ------------------------------------------------------------------------
\* Properties
\* ------------------------------------------------------------------------
Verified == res.op = "verify"
VerifiedCredential == res.presentation.verifiableCredential[1]
HasCredential == Verified /\ Len(res.presentation.verifiableCredential) > 0

\* C1: Registry.revokeCredential(id, actingIssuer) returns false when id has
\* no entry or actingIssuer is not the entry's recorded issuer, and then
\* leaves every entry (the revoked flag of id included) unchanged; otherwise
\* it sets the entry's revoked flag and returns true.
C1_RevokeContract ==
  [][res'.op = "revoke" =>
       LET id == res'.id
           refused == \/ id \notin DOMAIN registry.entries
                      \/ registry.entries[id].issuer # res'.issuer
       IN IF refused
          THEN res'.ret = FALSE /\ registry' = registry
          ELSE /\ res'.ret = TRUE
               /\ registry'.entries[id].revoked = TRUE]_vars

\* an unauthorized revocation of a registered, unrevoked credential was refused
C1_Witness ==
  /\ res.op = "revoke" /\ res.ret = FALSE
  /\ res.id \in DOMAIN registry.entries
  /\ registry.entries[res.id].issuer # res.issuer
  /\ registry.entries[res.id].revoked = FALSE

VerifiedMinimums ==
  IF res.request = None \/ The(res.request).minimumScores = None THEN <<>>
  ELSE The(The(res.request).minimumScores)

\* C3: whenever verifyPresentation accepts and the request sets a minimum
\* for a score field, the presented credential's true value of that field is
\* at least the minimum, also for a presentation created for another request.
C3_AcceptedMeetsMinimums ==
  (Verified /\ res.isValid) =>
     \A i \in 1..Len(VerifiedMinimums) :
        The(VerifiedCredential.credentialSubject).scores[VerifiedMinimums[i].scoreType[1]]
           >= VerifiedMinimums[i].minScore

\* C4: every verifyPresentation call, the early return and the exception
\* path included, returns isValid equal to the conjunction of the five
\* details, and returns the five details with it.
C4_IsValidIsConjunction ==
  Verified =>
     /\ DOMAIN res.details = {"credentialValid", "issuerTrusted", "zkProofValid",
                              "requirementsMet", "notRevoked"}
     /\ res.isValid = (/\ res.details.credentialValid
                       /\ res.details.issuerTrusted
                       /\ res.details.zkProofValid
                       /\ res.details.requirementsMet
                       /\ res.details.notRevoked)

\* the exception path, taken after some details were already established
C4_Witness ==
  /\ Verified /\ res.threw
  /\ res.details.issuerTrusted /\ res.details.credentialValid
  /\ res.details.zkProofValid /\ res.details.notRevoked
  /\ ~res.details.requirementsMet
  /\ res.isValid = FALSE

UntrustedIssuerError == "Credential rejected: Untrusted issuer"
InvalidSignatureError == "Credential rejected: Invalid signature"
MissingFieldsError == "Credential rejected: Missing required fields"
ThresholdError == "Minimum score requirement not met"

\* the signature of a credential that has both sub-objects does not verify
SignatureFails(vc) ==
  /\ IsSome(vc.credentialSubject) /\ IsSome(vc.proof)
  /\ ~verifyCredential(vc.credentialSubject, vc.proof).verified

\* C5: storeCredential(vc) fails with the untrusted-issuer error whenever
\* vc.issuer is not in the holder's trust set at call time (before the
\* signature is looked at), and with the invalid-signature error whenever the
\* issuer is trusted and the signature does not verify; after either failure
\* the holder's credentials and accumulator are unchanged.
C5_StoreRejections ==
  [][res'.op = "store" =>
       LET vc == res'.credential
       IN /\ vc.issuer \notin holderTrusted => res'.err = UntrustedIssuerError
          /\ (vc.issuer \in holderTrusted /\ SignatureFails(vc))
                => res'.err = InvalidSignatureError
          /\ res'.err \in {UntrustedIssuerError, InvalidSignatureError}
                => /\ holderCredentials' = holderCredentials
                   /\ holderZK' = holderZK]_vars

\* a credential of a trusted issuer, altered after signing, was rejected
C5_Witness ==
  /\ res.op = "store"
  /\ res.credential.issuer \in res.trusted
  /\ SignatureFails(res.credential)
  /\ res.err = InvalidSignatureError
  /\ holderCredentials = <<>>

\* C6: storeCredential fails with 'Credential rejected: Missing required
\* fields' whenever a credential naming a trusted issuer lacks its
\* credentialSubject or its proof, and stores nothing.
C6_MalformedRejected ==
  [][(/\ res'.op = "store"
      /\ res'.credential.issuer \in holderTrusted
      /\ (res'.credential.credentialSubject = None \/ res'.credential.proof = None))
     => /\ res'.err = MissingFieldsError
        /\ holderCredentials' = holderCredentials
        /\ holderZK' = holderZK]_vars

\* the credential createPresentation selects for a request
SelectedSubject(request) ==
  The(selectBestCredential(findMatchingCredentials(holderCredentials),
                           request).credentialSubject)

\* the entries of a request's minimum scores the selected credential misses
UnmetEntries(request) ==
  IF request.minimumScores = None THEN {}
  ELSE LET m == The(request.minimumScores)
       IN {i \in 1..Len(m) :
             SelectedSubject(request).scores[m[i].scoreType[1]] < m[i].minScore}

\* C8: when a requested threshold is not met, generateZKProof throws the
\* threshold error naming the field and returns no proof, and
\* createPresentation fails with that same error and produces no presentation.
C8_ThresholdErrorPropagates ==
  (/\ res.op = "present"
   /\ holderCredentials # <<>>
   /\ UnmetEntries(res.request) # {})
  => LET m == The(res.request.minimumScores)
         first == CHOOSE i \in UnmetEntries(res.request) :
                     \A j \in UnmetEntries(res.request) : i <= j
     IN /\ res.zkProof = Some([ok |-> FALSE, err |-> ThresholdError,
                               field |-> m[first].scoreType, proof |-> None])
        /\ res.err = ThresholdError
        /\ res.field = m[first].scoreType
        /\ res.presentation = None

\* a request with two thresholds failed on its second one
C8_Witness ==
  /\ res.op = "present"
  /\ res.err = ThresholdError
  /\ res.request.minimumScores # None
  /\ Len(The(res.request.minimumScores)) = 2
  /\ res.field = <<"overall">>
  /\ res.presentation = None

\* the attributes of a credential, as field names
AttributePaths ==
  {<<n>> : n \in TopLevelNames \ {"scores"}} \cup {<<"scores", n>> : n \in ScoreNames}

\* the attributes whose values can be read off a presentation
DisclosedAttributes(p) ==
  LET revealed == IF p.proof = None \/ The(p.proof).revealedAttributes = None THEN {}
                  ELSE LET ra == The(The(p.proof).revealedAttributes)
                       IN {f \in DOMAIN ra : IsSome(ra[f])}
      embedded == IF \E i \in 1..Len(p.verifiableCredential) :
                        IsSome(p.verifiableCredential[i].credentialSubject)
                  THEN AttributePaths ELSE {}
  IN revealed \cup embedded

\* C10: the presentation returned by createPresentation discloses only the
\* requested fields: no value of a non-requested attribute can be read
\* anywhere in it.
C10_OnlyRequestedDisclosed ==
  (res.op = "present" /\ IsSome(res.presentation))
  => DisclosedAttributes(The(res.presentation)) \subseteq FieldSet(res.request.requiredFields)

Generated == res.op = "generateZKProof"

\* C7: for an accumulated credential, a score field f and a threshold t,
\* generateZKProof(id, revealedFields, {f: t}) succeeds iff the credential's
\* true value of f is at least t (t equal to the value succeeds), whatever
\* revealedFields is and whether or not f is among them.
C7_ThresholdIff ==
  (/\ Generated
   /\ res.id \in DOMAIN zkm.credentials
   /\ res.minimumScores # None
   /\ Len(The(res.minimumScores)) = 1)
  => LET e == The(res.minimumScores)[1]
     IN res.ok <=> (zkm.credentials[res.id].scores[e.scoreType[1]] >= e.minScore)

\* a threshold equal to the hidden value of a field that is not revealed
C7_Witness ==
  /\ Generated /\ res.ok
  /\ res.revealedFields = <<<<"name">>>>
  /\ res.minimumScores # None
  /\ Len(The(res.minimumScores)) = 1
  /\ The(res.minimumScores)[1].scoreType = <<"overall">>
  /\ zkm.credentials[res.id].scores.overall = The(res.minimumScores)[1].minScore

\* the credential's value of an attribute named by a (dotted) field name
AttributeAt(credential, path) ==
  IF Len(path) = 1 /\ path[1] \in TopLevelNames THEN Some(credential[path[1]])
  ELSE IF Len(path) = 2 /\ path[1] = "scores" /\ path[2] \in ScoreNames
  THEN Some(credential.scores[path[2]])
  ELSE None

\* C9: for every proof generateZKProof returns, the key set of
\* revealedAttributes is exactly the set of requested revealedFields, and each
\* revealed value is the credential's true value of that field, 'scores.x'
\* being resolved inside the score group.
C9_RevealedExactlyRequested ==
  (Generated /\ res.ok)
  => LET revealedAttributes == The(The(res.proof).revealedAttributes)
     IN /\ DOMAIN revealedAttributes =
              {res.revealedFields[i] : i \in 1..Len(res.revealedFields)}
        /\ \A f \in DOMAIN revealedAttributes :
              revealedAttributes[f] = AttributeAt(zkm.credentials[res.id], f)

\* a dotted score field and a repeated plain field were revealed
C9_Witness ==
  /\ Generated /\ res.ok
  /\ res.revealedFields = << <<"scores", "listening">>, <<"name">>, <<"name">> >>
  /\ Cardinality(DOMAIN The(The(res.proof).revealedAttributes)) = 2
  /\ The(The(res.proof).revealedAttributes)[<<"scores", "listening">>]
        = Some(zkm.credentials[res.id].scores.listening)

\* ------------------------------------------------------------------------
\* Properties of proof verification
\* ------------------------------------------------------------------------
VerifiedProof == res.op = "verifyZKProof"
StatedRoot == res.proof.merkleRoot

\* the proof was generated by the verifying manager from its present
\* accumulator and has not been altered
FreshProof == VerifiedProof /\ res.how = "asGenerated" /\ res.generated \in ProofsOf(zkm)

\* C11: every proof generateZKProof produces for a credential now in the
\* accumulator carries the accumulator's root at generation time and is
\* accepted by verifyZKProof, both without an expectedRoot and with
\* expectedRoot equal to that root.
C11_GeneratedProofVerifies ==
  (FreshProof /\ res.expectedRoot \in {None, Some(getRoot(zkm))})
     => /\ StatedRoot = Some(getRoot(zkm))
        /\ res.result

\* a fresh proof of a manager holding two credentials was verified against
\* the manager's root and accepted
C11_Witness ==
  /\ FreshProof
  /\ Len(The(zkm.tree).leaves) = 2
  /\ res.expectedRoot = Some(getRoot(zkm))
  /\ res.result

\* C12: verifyZKProof(proof, expectedRoot) returns false for every proof and
\* every supplied expectedRoot that differs from the proof's stated root.
C12_ExpectedRootMismatchRejected ==
  (VerifiedProof /\ IsSome(res.expectedRoot) /\ res.expectedRoot # StatedRoot)
     => ~res.result

\* C13: a proof is accepted only if its stated root equals the current root
\* of the verifying manager's accumulator or a supplied expected root.
C13_AcceptedOnlyWithKnownRoot ==
  (VerifiedProof /\ res.result)
     => \/ StatedRoot = Some(getRoot(zkm))
        \/ (IsSome(res.expectedRoot) /\ StatedRoot = res.expectedRoot)

\* the true membership path of the leaf at a tree position: the digest of
\* the sibling subtree and the direction bit of every level, leaf to root
TrueSiblings(leaves, position) ==
  [level \in 1..Depth |->
     LET i == ShiftRight(position, level - 1)
     IN Node(leaves, level - 1, IF i % 2 = 0 THEN i + 1 ELSE i - 1)]

TrueDirections(position) == DirectionBits(position, Depth)

\* the tree position of a stored value
PositionOf(leaves, h) == CHOOSE i \in 1..Len(leaves) : leaves[i] = h

GeneratedMerkleProof == The(The(res.proof).zkProof)
GeneratedMembershipProof == The(GeneratedMerkleProof.membershipProof)

\* C14: for every credential inserted at index i, the proof returned by
\* generateMembershipProof(commitment, i) holds the true sibling digest and
\* direction bit of every level, so that folding the leaf with the siblings
\* per direction bit yields exactly the accumulator's stored root.
C14_MembershipPathRecomputesRoot ==
  (Generated /\ res.ok) =>
    LET leaves == The(zkm.tree).leaves
        leaf == The(GeneratedMerkleProof.leaf)
    IN /\ GeneratedMembershipProof.siblings = TrueSiblings(leaves, PositionOf(leaves, leaf))
       /\ GeneratedMembershipProof.directions = TrueDirections(PositionOf(leaves, leaf))
       /\ FoldPath(leaf, GeneratedMembershipProof.siblings,
                   GeneratedMembershipProof.directions, 1) = getRoot(zkm)

\* the membership path a proof carries recomputes to the root it states
PathRecomputes(proof) ==
  /\ IsSome(proof.zkProof)
  /\ IsSome(proof.merkleRoot)
  /\ IsSome(The(proof.zkProof).membershipProof)
  /\ IsSome(The(proof.zkProof).leaf)
  /\ FoldPath(The(The(proof.zkProof).leaf),
              The(The(proof.zkProof).membershipProof).siblings,
              The(The(proof.zkProof).membershipProof).directions, 1)
        = The(proof.merkleRoot)

\* C15: verifyZKProof returns false for any proof whose membership path does
\* not recompute to the proof's root; in particular after a single sibling
\* digest or direction bit of an accepted proof was changed.
C15_BrokenPathRejected ==
  (VerifiedProof /\ ~PathRecomputes(res.proof)) => ~res.result

\* the non-membership proof a proof carries fails the tree's check against
\* the root the proof states
NonMembershipFails(proof) ==
  /\ IsSome(proof.zkProof)
  /\ IsSome(proof.merkleRoot)
  /\ IsSome(The(proof.zkProof).nonMembershipProof)
  /\ ~TreeVerifyNonMembership(The(proof.merkleRoot),
                              The(The(proof.zkProof).nonMembershipProof))

\* C16: if a proof carries a non-membership proof that does not check out
\* (its predecessor path does not recompute to the root, or the query is not
\* strictly between the predecessor's value and its next value),
\* verifyZKProof returns false.
C16_BadNonMembershipRejected ==
  (VerifiedProof /\ NonMembershipFails(res.proof)) => ~res.result

\* C17: the result of verifyZKProof(proof, expectedRoot) is the same in any
\* two managers, whatever their accumulator contents or initialization
\* state.
C17_SameResultInEveryManager ==
  VerifiedProof =>
    \A zk \in ManagerStates :
       verifyZKProof(zk, Some(res.proof), res.expectedRoot) = res.result

\* a proof was accepted by a manager whose own tree rejects the proof's
\* non-membership part, while the tree of another manager accepts it
C17_Witness ==
  /\ VerifiedProof
  /\ res.result
  /\ ~NonMembershipValid(zkm, res.proof)
  /\ \E zk \in ManagerStates : NonMembershipValid(zk, res.proof)

\* ------------------------------------------------------------------------
\* Properties of the accumulator
\* ------------------------------------------------------------------------
Added == res.op = "addCredential"

\* the number of insertions that succeeded on a manager
Insertions(zk) == IF zk.tree = None THEN 0 ELSE Len(The(zk.tree).leaves)

\* C18: successful addCredential calls on one accumulator return the indices
\* 0, 1, 2, ... in insertion order: the k-th successful insertion returns
\* k - 1, a failed insertion consumes no index, and no two stored credentials
\* ever share an index.
C18_IndicesInInsertionOrder ==
  [][res'.op = "addCredential" =>
       /\ res'.ok => /\ res'.index = Insertions(zkm)
                     /\ Insertions(zkm') = Insertions(zkm) + 1
                     /\ zkm'.credentialIndices =
                          Put(zkm.credentialIndices, res'.id, Insertions(zkm))
       /\ ~res'.ok => /\ Insertions(zkm') = Insertions(zkm)
                      /\ zkm'.credentialIndices = zkm.credentialIndices
       /\ \A a, b \in DOMAIN zkm'.credentialIndices :
             a # b => zkm'.credentialIndices[a] # zkm'.credentialIndices[b]]_vars

\* the third successful insertion returned 2
C18_Witness ==
  /\ Added
  /\ res.ok
  /\ res.index = 2
  /\ Cardinality(DOMAIN zkm.credentialIndices) = 3

\* C19: addCredential of a credential that is already in the accumulator
\* fails and leaves the root, the tree size and the credential, commitment
\* and index side tables unchanged.
C19_DuplicateLeavesAccumulatorUnchanged ==
  [][(res'.op = "addCredential" /\ Has(zkm.credentials, res'.id))
       => /\ ~res'.ok
          /\ getRoot(zkm') = getRoot(zkm)
          /\ Insertions(zkm') = Insertions(zkm)
          /\ zkm'.credentials = zkm.credentials
          /\ zkm'.leafNodes = zkm.leafNodes
          /\ zkm'.credentialIndices = zkm.credentialIndices]_vars

\* a credential was refused whose id is stored with another score sheet
C19_Witness ==
  /\ Added
  /\ ~res.ok
  /\ Has(zkm.credentials, res.id)
  /\ zkm.credentials[res.id] # res.credential
  /\ Insertions(zkm) = 2

\* ------------------------------------------------------------------------
\* Properties of calls in flight at once
\* ------------------------------------------------------------------------
Returned(k) == calls[k].pc = "returned"

\* the value a returned call added sits at the tree position after the
\* initial leaf that the call's index names
IndexIsPosition(k) ==
  /\ IsSome(zkm.tree)
  /\ calls[k].index + 1 <= Len(The(zkm.tree).leaves)
  /\ The(zkm.tree).leaves[calls[k].index + 1] = hashCredential(The(calls[k].credential))

\* C20: when several addCredential calls on one accumulator are in flight
\* at once, no two of them return or record the same index, and each added
\* credential's recorded index is the position its commitment received in
\* the tree.
C20_ConcurrentIndicesDistinct ==
  /\ \A a, b \in CallIds :
        (a # b /\ Returned(a) /\ Returned(b)) => calls[a].index # calls[b].index
  /\ \A a, b \in DOMAIN zkm.credentialIndices :
        a # b => zkm.credentialIndices[a] # zkm.credentialIndices[b]
  /\ \A k \in CallIds : Returned(k) => IndexIsPosition(k)

\* ------------------------------------------------------------------------
\* Properties of initialization
\* ------------------------------------------------------------------------
\* every commitment the side table holds is a leaf of the tree
CommitmentsInTree(zk) ==
  \A id \in DOMAIN zk.leafNodes :
     IsSome(zk.tree) /\ TreeContains(The(zk.tree).leaves, zk.leafNodes[id])

\* C21: initialize() triggered again on a ZKManager that already has its
\* accumulator creates no second accumulator: the tree, its root and its
\* size are the ones from before the call, and every commitment inserted
\* so far is still in the tree.
C21_InitializeKeepsAccumulator ==
  [][(res'.op = "initialize" /\ IsSome(zkm.tree))
       => /\ zkm'.tree = zkm.tree
          /\ CommitmentsInTree(zkm')]_vars

\* ------------------------------------------------------------------------
\* Properties of the root
\* ------------------------------------------------------------------------
\* the commitments of the insertions that succeeded, in the order of the
\* indices they returned
OrderedCommitments(zk) ==
  [i \in 1..Cardinality(DOMAIN zk.credentialIndices) |->
     zk.leafNodes[CHOOSE id \in DOMAIN zk.credentialIndices :
                     zk.credentialIndices[id] = i - 1]]

\* C22: the root of an accumulator is the root of the tree that received
\* the commitments of its successful insertions in their order and nothing
\* else, whatever failed insertions, proof generations, verifications and
\* revocations took place in between.
C22_RootOfSuccessfulInsertions ==
  \A zk \in {zkm, registry.zk} :
     IsSome(zk.tree) => getRoot(zk) = TreeRoot(OrderedCommitments(zk))

\* an insertion was just refused by an accumulator that holds two
\* commitments, next to a Registry holding a revoked entry
C22_Witness ==
  /\ Added
  /\ ~res.ok
  /\ Insertions(zkm) = 2
  /\ \E id \in DOMAIN registry.entries : registry.entries[id].revoked

\* ------------------------------------------------------------------------
\* Properties of revocation and the accumulators
\* ------------------------------------------------------------------------
\* what the claim compares of an accumulator
AccumulatorView(zk) ==
  [root |-> getRoot(zk), size |-> Insertions(zk), indices |-> zk.credentialIndices]

\* a manager holding the credential generates a proof for it, and the
\* generating manager and the Verifier's both verify that proof
ProofStillVerifies(zk, credentialId) ==
  Has(zk.credentials, credentialId) =>
     LET g == generateZKProof(zk, credentialId, <<<<"name">>>>, None)
     IN /\ g.ok
        /\ verifyZKProof(zk, g.proof, None)
        /\ verifyZKProof(VerifierZK, g.proof, None)

\* C23: Registry.revokeCredential leaves the root, the size and the
\* credential indices of the Registry's, the Issuer's, the Holder's and the
\* Verifier's accumulators as they were, and after a revocation every
\* accumulator holding the revoked credential still generates a proof for
\* it that verifies true.
C23_RevokeLeavesAccumulators ==
  [][res'.op = "revoke" =>
       /\ AccumulatorView(registry'.zk) = AccumulatorView(registry.zk)
       /\ AccumulatorView(issuerZK') = AccumulatorView(issuerZK)
       /\ AccumulatorView(holderZK') = AccumulatorView(holderZK)
       /\ registry'.merkleTreeIndices = registry.merkleTreeIndices
       /\ res'.ret => \A zk \in {registry'.zk, issuerZK', holderZK'} :
                         ProofStillVerifies(zk, res'.id)]_vars

\* a credential the Registry, the Issuer and the Holder hold was revoked
C23_Witness ==
  /\ res.op = "revoke"
  /\ res.ret
  /\ registry.entries[res.id].revoked
  /\ \A zk \in {registry.zk, issuerZK, holderZK} : Has(zk.credentials, res.id)

\* ------------------------------------------------------------------------
\* Properties of batches
\* ------------------------------------------------------------------------
\* the manager after addCredential was applied to each item in turn
RECURSIVE AfterItems(_, _)
AfterItems(zk, credentials) ==
  IF credentials = <<>> THEN zk
  ELSE TreeManagerAddCredential(
          AfterItems(zk, SubSeq(credentials, 1, Len(credentials) - 1)),
          credentials[Len(credentials)]).zk

\* what addCredential does with item i once the items before it are through
ItemOutcome(zk, credentials, i) ==
  TreeManagerAddCredential(AfterItems(zk, SubSeq(credentials, 1, i - 1)), credentials[i])

SavedView(zk) ==
  [root |-> getRoot(zk), size |-> IF zk.tree = None THEN 0 ELSE TreeSize(The(zk.tree).leaves),
   credentials |-> zk.credentials, leafNodes |-> zk.leafNodes,
   credentialIndices |-> zk.credentialIndices]

\* C25: loadTreeState into a new manager, called right after a
\* saveTreeState of the same path that did not throw, returns normally and
\* gives the new manager the saved manager's root, tree size, credentials,
\* commitments and indices.
C25_SaveLoadRoundTrip ==
  [][(/\ res.op = "saveTreeState"
      /\ ~res.threw
      /\ res'.op = "loadTreeState"
      /\ res'.filePath = res.filePath)
       => /\ ~res'.threw
          /\ SavedView(res'.loaded) = SavedView(zkm)]_vars

\* ------------------------------------------------------------------------
\* Properties of the Holder's choice
\* ------------------------------------------------------------------------
Presented == res.op = "present"

Subject(vc) == The(vc.credentialSubject)
Expired(vc) == Subject(vc).expiryDate < Now
HasOverallThreshold(request) == IsSome(MinimumOf(request.minimumScores, "overall"))
Margin(vc, request) ==
  IF request.minimumScores = None THEN 0
  ELSE Advantage(Subject(vc), The(request.minimumScores))

\* a ranks strictly before b in the order the claim states
RanksBefore(a, b, request) ==
  \/ ~Expired(a) /\ Expired(b)
  \/ /\ Expired(a) = Expired(b)
     /\ \/ Subject(a).certificationDate > Subject(b).certificationDate
        \/ /\ Subject(a).certificationDate = Subject(b).certificationDate
           /\ \/ /\ HasOverallThreshold(request)
                 /\ Subject(a).scores.overall > Subject(b).scores.overall
              \/ /\ HasOverallThreshold(request)
                       => Subject(a).scores.overall = Subject(b).scores.overall
                 /\ Margin(a, request) > Margin(b, request)

\* the earliest stored credential that no stored credential ranks before
FirstRanked(credentials, request) ==
  LET top == {i \in 1..Len(credentials) :
                \A j \in 1..Len(credentials) :
                   ~RanksBefore(credentials[j], credentials[i], request)}
  IN credentials[CHOOSE i \in top : \A j \in top : i <= j]

\* C26: the credential createPresentation selects among the stored ones is
\* the first in this order: unexpired before expired, then the later
\* certification date, then, if the request has an overall threshold, the
\* higher overall score, then the larger summed margin over the requested
\* thresholds, and among those still tied the one stored earliest; a
\* presentation that is returned carries that credential.
C26_SelectsFirstRanked ==
  [][(res'.op = "present" /\ holderCredentials # <<>>)
       => LET first == FirstRanked(holderCredentials, res'.request)
          IN /\ selectBestCredential(findMatchingCredentials(holderCredentials),
                                     res'.request) = first
             /\ IsSome(res'.presentation)
                  => The(res'.presentation).verifiableCredential = <<first>>]_vars

\* a presentation was made by a holder of all four credentials, and the
\* credential presented is neither the first stored nor the last
C26_Witness ==
  /\ Presented
  /\ IsSome(res.presentation)
  /\ Len(holderCredentials) = Cardinality(HolderPool)
  /\ The(res.presentation).verifiableCredential[1] # holderCredentials[1]
  /\ The(res.presentation).verifiableCredential[1]
        # holderCredentials[Len(holderCredentials)]

MeetsThresholds(vc, request) ==
  request.minimumScores = None
    \/ FailingScores(Subject(vc), The(request.minimumScores)) = <<>>

\* C27: when at least one stored credential meets every requested
\* threshold, createPresentation returns a presentation, and the credential
\* it presents meets every requested threshold.
C27_QualifyingCredentialPresented ==
  [][(/\ res'.op = "present"
      /\ \E i \in 1..Len(holderCredentials) :
            MeetsThresholds(holderCredentials[i], res'.request))
       => /\ res'.err = "none"
          /\ IsSome(res'.presentation)
          /\ MeetsThresholds(The(res'.presentation).verifiableCredential[1],
                             res'.request)]_vars

\* ------------------------------------------------------------------------
\* Properties of the Verifier's checks
\* ------------------------------------------------------------------------
\* the credential as the issuer issued it, when the presented one has its
\* id and its proof but other attributes
IssuedOriginals(vc) ==
  {i \in 1..Len(issuedCredentials) :
     /\ issuedCredentials[i].id = vc.id
     /\ issuedCredentials[i].proof = vc.proof
     /\ IsSome(vc.credentialSubject)
     /\ The(vc.credentialSubject).id = vc.id
     /\ issuedCredentials[i].credentialSubject # vc.credentialSubject}

AlteredAfterSigning == HasCredential /\ IssuedOriginals(VerifiedCredential) # {}

\* C28: verifyPresentation of a presentation whose credential carries the
\* issuer's proof and the issued id but attributes other than those signed
\* reports credentialValid = false and isValid = false, and every other
\* detail is what the same presentation with the attributes as signed gets:
\* the signature check alone turns the result.
C28_AlteredAttributesRejected ==
  AlteredAfterSigning =>
     LET issued == issuedCredentials[CHOOSE i \in IssuedOriginals(VerifiedCredential) : TRUE]
         asSigned == [res.presentation EXCEPT !.verifiableCredential = <<issued>>]
         r == verifyPresentation(verifierTrusted, Some(registry.entries), asSigned,
                                 res.request)
     IN /\ ~res.threw
        /\ ~res.details.credentialValid
        /\ ~res.isValid
        /\ r.details.credentialValid
        /\ res.details = [r.details EXCEPT !.credentialValid = FALSE]

\* an altered credential was rejected although issuer, proof, requirements
\* and revocation status all pass
C28_Witness ==
  /\ AlteredAfterSigning
  /\ ~res.isValid
  /\ res.details.issuerTrusted
  /\ res.details.zkProofValid
  /\ res.details.requirementsMet
  /\ res.details.notRevoked
  /\ IsSome(res.request)

\* C29: details.issuerTrusted of a verifyPresentation call is membership of
\* the presented credential's issuer in the trust set the Verifier has when
\* called, and an untrusted issuer makes the call invalid;
\* removeTrustedIssuer(x) leaves x outside the trust set, so verifications
\* after it report false for x's credentials.
C29_IssuerTrustedIsLiveMembership ==
  [][/\ (res'.op = "verify" /\ Len(res'.presentation.verifiableCredential) > 0)
          => LET issuer == res'.presentation.verifiableCredential[1].issuer
             IN /\ res'.details.issuerTrusted = (issuer \in verifierTrusted)
                /\ issuer \notin verifierTrusted => ~res'.isValid
     /\ res'.op = "verifierRemoveTrustedIssuer"
          => /\ res'.issuer \notin verifierTrusted'
             /\ verifierTrusted' = verifierTrusted \ {res'.issuer}]_vars

\* a presentation that passes every other check was found invalid by a
\* Verifier whose trust set does not hold the issuer
C29_Witness ==
  /\ HasCredential
  /\ VerifiedCredential.issuer \notin verifierTrusted
  /\ ~res.details.issuerTrusted
  /\ res.details.credentialValid
  /\ res.details.zkProofValid
  /\ res.details.requirementsMet
  /\ res.details.notRevoked
  /\ ~res.isValid

\* the Registry holds an entry for the id that is revoked
RevokedEntry(credentialId) ==
  Has(registry.entries, credentialId) /\ registry.entries[credentialId].revoked

\* C30: a Verifier constructed without a Registry reports notRevoked = true
\* for every presentation; a Verifier with the Registry reports
\* notRevoked = false exactly when the presentation carries a credential
\* for whose id the Registry holds an entry with revoked = true, so not for
\* a credential that was never registered.
C30_NotRevokedFollowsRegistry ==
  /\ res.op = "verifyUnattached" => res.details.notRevoked
  /\ res.op = "verify" =>
        (~res.details.notRevoked <=>
            /\ Len(res.presentation.verifiableCredential) > 0
            /\ RevokedEntry(res.presentation.verifiableCredential[1].id))

\* the Verifier without a Registry found a credential valid that the
\* Registry holds as revoked
C30_Witness ==
  /\ res.op = "verifyUnattached"
  /\ res.isValid
  /\ res.details.notRevoked
  /\ RevokedEntry(res.presentation.verifiableCredential[1].id)

\* ------------------------------------------------------------------------
\* A Registry handed credentials by any caller  (src/unnamed/part_002)
\* ------------------------------------------------------------------------
\* a VerifiableCredential object whose id and issuer fields were written by
\* the caller
Rewrapped(vc, id, issuer) == [vc EXCEPT !.id = id, !.issuer = issuer]

RegistryIds == {"c1", "c2"}

\* the objects passed to registerCredential: the issuer's credentials, and
\* objects naming another id or issuer than their credentialSubject's
RegistryPool ==
  { Rewrapped(VerifiableCredential(IssuerId, IssuerKey, c), id, i) :
      c \in ZKCredPool, id \in RegistryIds, i \in IssuerIds }

\* verifyCredentialIntegrity(credentialId): false for an id without entry
\* and for an entry whose merkleTreeIndex is falsy (undefined or 0),
\* otherwise !entry.revoked
verifyCredentialIntegrity(entries, credentialId) ==
  IF ~Has(entries, credentialId) THEN FALSE
  ELSE IF entries[credentialId].merkleTreeIndex = 0 THEN FALSE
  ELSE ~entries[credentialId].revoked

VerifyCredentialIntegrity(credentialId) ==
  /\ res' = [op |-> "integrity", id |-> credentialId,
             ret |-> verifyCredentialIntegrity(registry.entries, credentialId)]
  /\ UNCHANGED <<roleVars, files, zkm, calls>>

NextRegistry ==
  \/ \E vc \in RegistryPool : RegisterCredential(vc)
  \/ \E id \in CredIds, i \in IssuerIds : RevokeCredential(id, i)
  \/ \E id \in CredIds : VerifyCredentialIntegrity(id)

SpecRegistry == Init /\ [][NextRegistry]_vars

\* ------------------------------------------------------------------------
\* HashingUtils given pairs of credentials
\* (src/src/core/zk-manager/hashing-utils.ts)
\* ------------------------------------------------------------------------
HashNames == {"alice", "al", "al|ice"}
HashBirths == {"dob", "ice|dob"}
HashCenters == {"center", "centre"}

\* credentials that differ in their name, date of birth, test center or
\* listening score
HashPool ==
  { [IELTSCredential("c1", n, l, 7, 1, 9) EXCEPT !.dateOfBirth = b, !.testCenter = t] :
      n \in HashNames, b \in HashBirths, t \in HashCenters, l \in {7, 8} }

\* hashCredential of two credentials on a HashingUtils whose Poseidon is built
HashCredentials(a, b) ==
  /\ res' = [op |-> "hashCredential", a |-> a, b |-> b,
             digestA |-> hashCredential(a), digestB |-> hashCredential(b)]
  /\ UNCHANGED <<roleVars, files, zkm, calls>>

NextHash == \E a \in HashPool, b \in HashPool : HashCredentials(a, b)

SpecHash == Init /\ [][NextHash]_vars

\* ------------------------------------------------------------------------
\* An Issuer that revokes on its own  (src/src/components/issuer.ts)
\* ------------------------------------------------------------------------
\* Map.delete(key)
MapDelete(m, key) == SelectSeq(m, LAMBDA e : e.id # key)

\* Issuer.revokeCredential that also marks the Registry's entry
IssuerRevokeCredentialInRegistry(credentialId) ==
  LET found == MapIndex(issuedCredentials, credentialId) # {}
      r == revokeCredential(registry.entries, credentialId, IssuerId)
  IN /\ issuedCredentials' = IF found THEN MapDelete(issuedCredentials, credentialId)
                             ELSE issuedCredentials
     /\ registry' = IF found THEN [registry EXCEPT !.entries = r.entries] ELSE registry
     /\ res' = [op |-> "issuerRevoke", id |-> credentialId, threw |-> ~found,
                ret |-> found]
     /\ UNCHANGED <<issuerZK, holderTrusted, holderCredentials, holderZK,
                    verifierTrusted, presentation, zkm, calls, files>>

\* Issuer.revokeCredential(credentialId): throws 'Credential not found' for
\* an id the issuer does not list, otherwise deletes it and returns true
IssuerRevokeCredential(credentialId) ==
  LET found == MapIndex(issuedCredentials, credentialId) # {}
  IN /\ issuedCredentials' = IF found THEN MapDelete(issuedCredentials, credentialId)
                             ELSE issuedCredentials
     /\ res' = [op |-> "issuerRevoke", id |-> credentialId, threw |-> ~found,
                ret |-> found]
     /\ UNCHANGED <<issuerZK, holderTrusted, holderCredentials, holderZK,
                    verifierTrusted, registry, presentation, zkm, calls, files>>

NextIssuerRevoke ==
  \/ \E c \in CredPool : IssueCredential(c)
  \/ HolderAddTrustedIssuer(IssuerId)
  \/ VerifierAddTrustedIssuer(IssuerId)
  \/ \E i \in 1..Len(issuedCredentials) : StoreCredential(issuedCredentials[i])
  \/ CreatePresentation(PresentationRequest(<<<<"name">>>>, None))
  \/ \E i \in 1..Len(issuedCredentials) : RegisterCredential(issuedCredentials[i])
  \/ \E id \in CredIds : IssuerRevokeCredential(id)
  \/ \E id \in CredIds, i \in IssuerIds : RevokeCredential(id, i)
  \/ /\ IsSome(presentation)
     /\ VerifyPresentation(The(presentation), None)

SpecIssuerRevoke == Init /\ [][NextIssuerRevoke]_vars

\* ------------------------------------------------------------------------
\* Selective disclosure of a signed credential
\* (src/src/core/bbs-manager.ts, holder.ts, verifier.ts)
\* ------------------------------------------------------------------------
\* getFieldMapping: the field at position i has the index i - 1
FieldOrder ==
  << <<"id">>, <<"holder">>, <<"name">>, <<"dateOfBirth">>,
     <<"scores", "listening">>, <<"scores", "reading">>, <<"scores", "writing">>,
     <<"scores", "speaking">>, <<"scores", "overall">>,
     <<"certificationDate">>, <<"expiryDate">>, <<"testCenter">>,
     <<"certificateNumber">> >>

\* revealedFields.map(field => fieldToIndex[field]).filter(idx => idx !== undefined)
RECURSIVE RevealedIndices(_)
RevealedIndices(revealedFields) ==
  IF Len(revealedFields) = 0 THEN <<>>
  ELSE LET at == {i \in 1..Len(FieldOrder) : FieldOrder[i] = Head(revealedFields)}
       IN (IF at = {} THEN <<>> ELSE <<(CHOOSE i \in at : TRUE) - 1>>)
             \o RevealedIndices(Tail(revealedFields))

\* the moments of Date.now() at which a proof is created and verified
MaxTime == 2
ClockTimes == 1..MaxTime

\* 'nonce-' + Date.now()
NonceAt(now) == <<"nonce-", now>>

\* blsCreateProof: the proof is the term of the signature it derives from,
\* the messages and indices it was given and its nonce
createSelectiveDisclosureProof(credential, proof, revealedIndices, now) ==
  [signature |-> proof.signature,
   publicKey |-> proof.publicKey,
   messages |-> credentialToMessages(credential),
   revealed |-> {revealedIndices[i] : i \in 1..Len(revealedIndices)},
   nonce |-> NonceAt(now)]

\* the messages at the revealed indices, in the order of the indices
RECURSIVE MessagesAt(_, _, _)
MessagesAt(messages, revealed, i) ==
  IF i > Len(messages) THEN <<>>
  ELSE (IF i - 1 \in revealed THEN <<messages[i]>> ELSE <<>>)
          \o MessagesAt(messages, revealed, i + 1)

\* verifySelectiveDisclosureProof(proof, revealedMessages, publicKey, nonce?):
\* blsVerifyProof with the nonce given, or 'nonce-' + Date.now() without one
verifySelectiveDisclosureProof(proof, revealedMessages, publicKey, nonceOpt, now) ==
  LET nonce == IF IsSome(nonceOpt) THEN The(nonceOpt) ELSE NonceAt(now)
  IN /\ proof.signature.key = proof.publicKey
     /\ proof.signature.messages = proof.messages
     /\ proof.publicKey = publicKey
     /\ revealedMessages = MessagesAt(proof.messages, proof.revealed, 1)
     /\ proof.nonce = nonce

SelectiveFieldsOpts ==
  { <<>>, <<<<"name">>>>, <<<<"scores", "overall">>, <<"name">>>>, <<<<"grade">>>> }

\* Holder.createSelectiveDisclosurePresentation(credentialId, revealedFields)
CreateSelectiveDisclosurePresentation(credentialId, revealedFields, now) ==
  LET at == MapIndex(holderCredentials, credentialId)
  IN IF at = {}
     THEN /\ res' = [op |-> "createSelective", threw |-> TRUE, id |-> credentialId]
          /\ UNCHANGED <<roleVars, files, zkm, calls>>
     ELSE LET credential == holderCredentials[CHOOSE i \in at : TRUE]
              selectiveProof ==
                 createSelectiveDisclosureProof(The(credential.credentialSubject),
                                                The(credential.proof),
                                                RevealedIndices(revealedFields), now)
          IN /\ presentation' = Some([proof |-> selectiveProof,
                                      revealedFields |-> revealedFields,
                                      credentialId |-> credentialId])
             /\ res' = [op |-> "createSelective", threw |-> FALSE, id |-> credentialId]
             /\ UNCHANGED <<issuerZK, issuedCredentials, holderTrusted, holderCredentials,
                            holderZK, verifierTrusted, registry, zkm, calls, files>>

\* the revealedMessages a caller passes: the revealed ones, or other ones
RevealedMessagesOpts(proof) ==
  {MessagesAt(proof.messages, proof.revealed, 1), <<"mallory">>}

\* Verifier.verifySelectiveDisclosureProof(proof, revealedMessages, issuerPublicKey)
VerifySelectiveDisclosureProof(revealedMessages, issuerPublicKey, now) ==
  /\ IsSome(presentation)
  /\ now >= The(presentation).proof.nonce[2]
  /\ res' = [op |-> "verifySelective", proof |-> The(presentation).proof,
             revealedMessages |-> revealedMessages, publicKey |-> issuerPublicKey,
             elapsed |-> now - The(presentation).proof.nonce[2],
             ret |-> verifySelectiveDisclosureProof(The(presentation).proof,
                                                    revealedMessages, issuerPublicKey,
                                                    None, now)]
  /\ UNCHANGED <<roleVars, files, zkm, calls>>

NextSelective ==
  \/ \E c \in CredPool : IssueCredential(c)
  \/ HolderAddTrustedIssuer(IssuerId)
  \/ \E i \in 1..Len(issuedCredentials) : StoreCredential(issuedCredentials[i])
  \/ \E id \in CredIds, f \in SelectiveFieldsOpts, t \in ClockTimes :
        CreateSelectiveDisclosurePresentation(id, f, t)
  \/ /\ IsSome(presentation)
     /\ \E m \in RevealedMessagesOpts(The(presentation).proof), k \in SigningKeys,
           t \in ClockTimes :
           VerifySelectiveDisclosureProof(m, k, t)

SpecSelective == Init /\ [][NextSelective]_vars

\* ------------------------------------------------------------------------
\* A ZKManager with its PerformanceManager
\* (src/src/core/zk-manager/performance-manager.ts, src/unnamed/part_001)
\* ------------------------------------------------------------------------
\* the counters of a new PerformanceManager, and of one after reset()
ZeroMetrics == [credentialAdditions |-> 0, proofGenerations |-> 0, proofVerifications |-> 0]

\* a new ZKManager seen with the counters of its PerformanceManager
MeteredZKManager ==
  [poseidon |-> FALSE, tree |-> None,
   credentials |-> EmptyMap, leafNodes |-> EmptyMap, credentialIndices |-> EmptyMap,
   metrics |-> ZeroMetrics]

recordCredentialAddition(zk) == [zk EXCEPT !.metrics.credentialAdditions = @ + 1]
recordProofGeneration(zk) == [zk EXCEPT !.metrics.proofGenerations = @ + 1]
recordProofVerification(zk) == [zk EXCEPT !.metrics.proofVerifications = @ + 1]

\* the most operations of one kind recorded since a reset
MaxCount == 2

InitMetered ==
  /\ issuerZK = ZKInitialize(NewZKManager)
  /\ issuedCredentials = <<>>
  /\ holderTrusted = {}
  /\ holderCredentials = <<>>
  /\ holderZK = ZKInitialize(NewZKManager)
  /\ verifierTrusted = {}
  /\ registry = [zk |-> ZKInitialize(NewZKManager), merkleTreeIndices |-> EmptyMap,
                 entries |-> EmptyMap]
  /\ presentation = None
  /\ zkm = MeteredZKManager
  /\ calls = [k \in CallIds |-> IdleCall]
  /\ files = EmptyMap
  /\ res = [op |-> "init"]

\* ZKManager.addCredential: on success the addition is recorded
MeteredAddCredential(credential) ==
  LET r == ZKAddCredential(zkm, credential)
  IN /\ zkm.metrics.credentialAdditions < MaxCount
     /\ zkm' = IF r.ok THEN recordCredentialAddition(r.zk) ELSE r.zk
     /\ res' = [op |-> "addCredential", ok |-> r.ok, err |-> r.err,
                index |-> r.index, id |-> credential.id]
     /\ UNCHANGED <<roleVars, files, calls>>

\* ZKManager.addCredentialsBatch: the MerkleTreeManager's batch, nothing recorded
MeteredAddCredentialsBatch(credentials) ==
  LET r == addCredentialsBatch(zkm, credentials)
  IN /\ zkm' = r.zk
     /\ res' = [op |-> "addCredentialsBatch", credentials |-> credentials,
                indices |-> r.indices]
     /\ UNCHANGED <<roleVars, files, calls>>

\* ZKManager.generateZKProof: on success the generation is recorded
MeteredGenerateZKProof(credentialId, revealedFields, minimumScoresOpt) ==
  LET r == generateZKProof(zkm, credentialId, revealedFields, minimumScoresOpt)
  IN /\ zkm.metrics.proofGenerations < MaxCount
     /\ zkm' = IF r.ok THEN recordProofGeneration(zkm) ELSE zkm
     /\ res' = [op |-> "generateZKProof", ok |-> r.ok, err |-> r.err, id |-> credentialId]
     /\ UNCHANGED <<roleVars, files, calls>>

\* ZKManager.generateZKProofsBatch: the ProofGenerator's batch, nothing recorded
MeteredGenerateZKProofsBatch(credentialIds, revealedFields, minimumScoresOpt) ==
  /\ res' = [op |-> "generateZKProofsBatch", credentialIds |-> credentialIds,
             proofs |-> generateZKProofsBatch(zkm, credentialIds, revealedFields,
                                              minimumScoresOpt)]
  /\ UNCHANGED <<roleVars, files, zkm, calls>>

\* ZKManager.verifyZKProof: the verification is recorded whatever it returns
MeteredVerifyZKProof(proof) ==
  /\ zkm.metrics.proofVerifications < MaxCount
  /\ zkm' = recordProofVerification(zkm)
  /\ res' = [op |-> "verifyZKProof", result |-> verifyZKProof(zkm, Some(proof), None)]
  /\ UNCHANGED <<roleVars, files, calls>>

\* ZKManager.resetPerformanceMetrics
ResetPerformanceMetrics ==
  /\ zkm' = [zkm EXCEPT !.metrics = ZeroMetrics]
  /\ res' = [op |-> "resetPerformanceMetrics"]
  /\ UNCHANGED <<roleVars, files, calls>>

NextMetered ==
  \/ \E c \in BatchPool : MeteredAddCredential(c)
  \/ \E cs \in SeqsUpTo(BatchPool, MaxBatch - 1) : MeteredAddCredentialsBatch(cs)
  \/ \E id \in BatchIds, m \in AccMinimumScoresOpts :
        MeteredGenerateZKProof(id, <<<<"name">>>>, m)
  \/ \E ids \in SeqsUpTo(BatchIds, MaxBatch - 1) :
        MeteredGenerateZKProofsBatch(ids, <<<<"name">>>>, None)
  \/ \E g \in ProofPool : MeteredVerifyZKProof(g)
  \/ ResetPerformanceMetrics

SpecMetered == InitMetered /\ [][NextMetered]_vars

\* ------------------------------------------------------------------------
\* Properties of the issuer's key
\* ------------------------------------------------------------------------
\* the credential's proof was made with the key pair of the issuer it names
SignedByNamedIssuer(vc) ==
  /\ IsSome(vc.proof)
  /\ vc.issuer = IssuerId
  /\ The(vc.proof).signature.key = IssuerKey

\* C31: a credential that storeCredential accepts, or that
\* verifyPresentation reports both credentialValid and issuerTrusted, was
\* signed with the key of the trusted issuer it names; one signed by
\* another party with its own key pair is rejected.
C31_OnlyTrustedIssuersKeyAccepted ==
  /\ (res.op = "store" /\ res.err = "none") => SignedByNamedIssuer(res.credential)
  /\ (HasCredential /\ res.details.credentialValid /\ res.details.issuerTrusted)
        => SignedByNamedIssuer(VerifiedCredential)

\* ------------------------------------------------------------------------
\* Properties of the revealed data
\* ------------------------------------------------------------------------
\* C32: when verifyPresentation accepts a presentation, every entry of the
\* returned revealedData is the value the presented credential has for that
\* attribute; a presentation whose revealedAttributes were altered after
\* the proof was generated is not accepted.
C32_RevealedDataIsCredentialData ==
  (HasCredential /\ res.isValid)
    => \A f \in DOMAIN res.revealedData :
          res.revealedData[f] = AttributeAt(The(VerifiedCredential.credentialSubject), f)

\* ------------------------------------------------------------------------
\* Properties of the Registry's entries
\* ------------------------------------------------------------------------
\* C33: no registerCredential or revokeCredential call removes an entry or
\* changes its issuer, holder or accumulator index, and an entry that is
\* revoked stays revoked.
C33_EntriesKeepFirstRegistration ==
  [][\A id \in DOMAIN registry.entries :
        /\ id \in DOMAIN registry'.entries
        /\ registry'.entries[id].issuer = registry.entries[id].issuer
        /\ registry'.entries[id].holder = registry.entries[id].holder
        /\ registry'.entries[id].merkleTreeIndex = registry.entries[id].merkleTreeIndex
        /\ (registry.entries[id].revoked => registry'.entries[id].revoked)]_vars

\* ------------------------------------------------------------------------
\* Properties of the ZKManager's side tables
\* ------------------------------------------------------------------------
\* C34: the credential, commitment and index tables of the ZKManager have
\* the same ids, and its tree holds the initial leaf and one leaf for each
\* of them.
C34_SideTablesMatchAccumulator ==
  /\ DOMAIN zkm.credentials = DOMAIN zkm.leafNodes
  /\ DOMAIN zkm.leafNodes = DOMAIN zkm.credentialIndices
  /\ zkm.tree = None => DOMAIN zkm.credentials = {}
  /\ IsSome(zkm.tree)
        => TreeSize(The(zkm.tree).leaves) = Cardinality(DOMAIN zkm.credentials) + 1

\* ------------------------------------------------------------------------
\* Properties of the commitment
\* ------------------------------------------------------------------------
\* C35: two credentials that differ in the value of an attribute have
\* different commitments.
C35_CommitmentBindsAttributes ==
  (res.op = "hashCredential" /\ res.a # res.b) => res.digestA # res.digestB

\* ------------------------------------------------------------------------
\* Properties of the Issuer's revocation
\* ------------------------------------------------------------------------
\* the ids the issuer lists as issued
IssuedIds(issued) == {issued[i].id : i \in 1..Len(issued)}

\* C36: Issuer.revokeCredential(id) removes id from the issuer's issued list
\* and changes neither the issuer's accumulator nor the Registry, and while
\* the Registry's entry of a credential is not revoked the Verifier with
\* the Registry reports notRevoked = true for it.
C36_IssuerRevokeOnlyDeletes ==
  /\ [][res'.op = "issuerRevoke" =>
          /\ issuerZK' = issuerZK
          /\ registry' = registry
          /\ IssuedIds(issuedCredentials') = IssuedIds(issuedCredentials) \ {res'.id}
          /\ \A i \in 1..Len(issuedCredentials') :
                \E j \in 1..Len(issuedCredentials) :
                   issuedCredentials[j] = issuedCredentials'[i]]_vars
  /\ [](HasCredential /\ ~RevokedEntry(VerifiedCredential.id)
           => res.details.notRevoked)

\* the Verifier with the Registry accepted a registered credential that its
\* issuer had deleted from the issued list
C36_Witness ==
  /\ HasCredential
  /\ res.isValid
  /\ res.details.notRevoked
  /\ Has(registry.entries, VerifiedCredential.id)
  /\ VerifiedCredential.id \notin IssuedIds(issuedCredentials)

\* C37: verifyCredentialIntegrity(id) returns true exactly when the Registry
\* holds an entry for id that is not revoked, whatever index the entry has.
C37_IntegrityOfRegisteredCredentials ==
  res.op = "integrity"
    => (res.ret <=> (Has(registry.entries, res.id) /\ ~RevokedEntry(res.id)))

\* ------------------------------------------------------------------------
\* Properties of the root
\* ------------------------------------------------------------------------
\* C38: the root after a successful addCredential differs from the root
\* before it, and the root of a created tree without credentials is not the
\* '0' of a manager without tree.
C38_InsertionChangesRoot ==
  /\ [][(res'.op = "addCredential" /\ res'.ok) => getRoot(zkm') # getRoot(zkm)]_vars
  /\ []((IsSome(zkm.tree) /\ The(zkm.tree).leaves = <<>>) => getRoot(zkm) # SentinelRoot)

\* a successful addCredential into a tree that held a credential already
C38_Witness ==
  /\ res.op = "addCredential"
  /\ res.ok
  /\ Len(The(zkm.tree).leaves) >= 2

\* ------------------------------------------------------------------------
\* Properties of the selective disclosure
\* ------------------------------------------------------------------------
\* C39: the Verifier accepts a selective-disclosure proof the Holder made
\* for a stored credential when it is given the revealed messages and the
\* issuer's public key, whatever time has passed since the proof was made.
C39_SelectiveProofVerifies ==
  (/\ res.op = "verifySelective"
   /\ res.revealedMessages = MessagesAt(res.proof.messages, res.proof.revealed, 1)
   /\ res.publicKey = IssuerKey)
     => res.ret

\* ------------------------------------------------------------------------
\* Properties of the performance counters
\* ------------------------------------------------------------------------
\* the number of entries of a batch result that report a success
RECURSIVE Successes(_, _)
Successes(results, failure) ==
  IF Len(results) = 0 THEN 0
  ELSE (IF Head(results) = failure THEN 0 ELSE 1) + Successes(Tail(results), failure)

\* C40: every operation adds to credentialAdditions, proofGenerations and
\* proofVerifications the number of credentials it added, proofs it
\* generated and verifications it performed, a batch as well as a single
\* call and a failed call nothing, and resetPerformanceMetrics sets the
\* three counters to 0.
C40_CountersCountOperations ==
  [][LET before == zkm.metrics
         after == zkm'.metrics
         added == CASE res'.op = "addCredential" -> IF res'.ok THEN 1 ELSE 0
                    [] res'.op = "addCredentialsBatch" -> Successes(res'.indices, -1)
                    [] OTHER -> 0
         generated == CASE res'.op = "generateZKProof" -> IF res'.ok THEN 1 ELSE 0
                        [] res'.op = "generateZKProofsBatch" -> Successes(res'.proofs, None)
                        [] OTHER -> 0
         verified == IF res'.op = "verifyZKProof" THEN 1 ELSE 0
     IN IF res'.op = "resetPerformanceMetrics"
        THEN after = ZeroMetrics
        ELSE after = [credentialAdditions |-> before.credentialAdditions + added,
                      proofGenerations |-> before.proofGenerations + generated,
                      proofVerifications |-> before.proofVerifications + verified]]_vars

====
